---- MODULE Spec2Model ----
(***************************************************************************)
(* A model of the AG1 <-> Goose bridge: the Redis-stream transport         *)
(* (crates/bus), the delegator (crates/ag1_meta), the log tail reader and  *)
(* the bridge loop (crates/ag1goose-bridge).                               *)
(*                                                                         *)
(* Specifications:                                                         *)
(*   SpecBus        a producer and a cursor reader of Bus on one stream    *)
(*   SpecGroup      consumers of one consumer group (SpecGroupFair: fair)  *)
(*   Spec           one delegate_with_opts call among unrelated traffic    *)
(*   SpecConcurrent two delegate_with_opts calls on one reply inbox        *)
(*   SpecNorm       the content normalisation of delegate_with_opts        *)
(*   SpecTail       wait_assistant_jsonl against a growing log file        *)
(*   SpecTurns      ... with turns whose input write fails                 *)
(*   SpecFrag       ... with lines that are fragments of records           *)
(*   SpecRotate     ... and a log file that is replaced                    *)
(*   SpecBridge     Bridge::run / handle_envelope with one goose session   *)
(*   SpecLoop       Bridge::run with several reply addresses and failures  *)
(*   SpecReady      ... and the readiness notifications of the sessions    *)
(*   SpecListener   run_bus_listener of the web command                    *)
(*   SpecLocks      the two mutexes of Bridge over handle_envelope         *)
(*   SpecCursor     the inbox reads of Bridge::run                         *)
(*   SpecShared     ... with a delegator's group reads on the same stream  *)
(*   SpecFault      delegate_to_name_with_opts on a transport that fails   *)
(*   SpecWait       wait_assistant_jsonl on a file system that fails       *)
(*                  (SpecWaitFair: the call keeps running)                 *)
(***************************************************************************)
EXTENDS Integers, Sequences, FiniteSets, TLC

VARIABLES
    bus,     \* the Redis store: [streams, groups]
    cl,      \* SpecBus: the clients of Bus (cursor reader, group consumers) and what was sent
    dg,      \* Spec: the running delegate_with_opts calls
    now,     \* Spec: the clock, in ms
    nz,      \* SpecNorm: the content under normalisation
    fs,      \* SpecTail: the session log file at its path, and its writer
    tl,      \* SpecTail: the wait_assistant_jsonl call and its caller's offsets
    br       \* SpecBridge: Bridge::run and the one session it drives;
             \* SpecLoop: Bridge::run, reply_to_session and sessions

vars == <<bus, cl, dg, now, nz, fs, tl, br>>

-----------------------------------------------------------------------------
(* Option<T>: None is the empty sequence, Some(x) the one-element sequence. *)
None == <<>>
Some(x) == <<x>>
IsSome(o) == o # <<>>
Unwrap(o) == o[1]

Min(a, b) == IF a <= b THEN a ELSE b

Digits == <<"0", "1", "2", "3", "4", "5", "6", "7", "8", "9">>

\* u64 -> decimal string, as Display does
RECURSIVE NatToString(_)
NatToString(n) ==
    IF n < 10 THEN Digits[n + 1]
    ELSE NatToString(n \div 10) \o Digits[(n % 10) + 1]

-----------------------------------------------------------------------------
(* serde_json::Value *)
JNull == [t |-> "null"]
JBool(b) == [t |-> "bool", b |-> b]
JNum(n) == [t |-> "num", n |-> n]
JStr(s) == [t |-> "str", s |-> s]
JArr(a) == [t |-> "arr", a |-> a]
JObj(f) == [t |-> "obj", f |-> f]
EmptyMap == <<>>
\* a payload that is not JSON text at all
NotJson == [t |-> "notjson"]

-----------------------------------------------------------------------------
(* bus::Envelope and its serde (de)serialisation *)
StrFields == {"role"}
ValueFields == {"content", "usage", "meta"}
OptStrFields == {"session_code", "agent_name", "billing_hint", "user_id", "task_id",
                 "target", "reply_to", "envelope_type", "auth_signature", "timestamp",
                 "envelope_id", "correlation_id", "consumer_group", "consumer_id"}
VecFields == {"trace", "tools_used"}
MapFields == {"headers"}
OptNumFields == {"delivery_count"}
EnvFields == StrFields \cup ValueFields \cup OptStrFields \cup VecFields
             \cup MapFields \cup OptNumFields

\* serde_json::to_string(&Envelope): every field is written, None as null
FieldToJson(k, v) ==
    IF k \in StrFields THEN JStr(v)
    ELSE IF k \in ValueFields THEN v
    ELSE IF k \in OptStrFields THEN (IF IsSome(v) THEN JStr(Unwrap(v)) ELSE JNull)
    ELSE IF k \in VecFields THEN JArr([i \in DOMAIN v |-> JStr(v[i])])
    ELSE IF k \in MapFields THEN JObj([h \in DOMAIN v |-> JStr(v[h])])
    ELSE (IF IsSome(v) THEN JNum(Unwrap(v)) ELSE JNull)

EnvToJson(e) == JObj([k \in EnvFields |-> FieldToJson(k, e[k])])

\* does JSON field k of object f deserialise into the Envelope field k?
FieldParses(f, k) ==
    IF k \notin DOMAIN f THEN k \notin StrFields        \* #[serde(default)] on all but role
    ELSE LET v == f[k] IN
         IF k \in StrFields THEN v.t = "str"
         ELSE IF k \in ValueFields THEN TRUE
         ELSE IF k \in OptStrFields THEN v.t \in {"null", "str"}
         ELSE IF k \in VecFields THEN v.t = "arr" /\ \A i \in DOMAIN v.a : v.a[i].t = "str"
         ELSE IF k \in MapFields THEN v.t = "obj" /\ \A h \in DOMAIN v.f : v.f[h].t = "str"
         ELSE v.t \in {"null", "num"}

FieldFromJson(f, k) ==
    IF k \notin DOMAIN f
    THEN (IF k \in ValueFields THEN JNull ELSE <<>>)     \* Default::default()
    ELSE LET v == f[k] IN
         IF k \in StrFields THEN v.s
         ELSE IF k \in ValueFields THEN v
         ELSE IF k \in OptStrFields THEN (IF v.t = "str" THEN Some(v.s) ELSE None)
         ELSE IF k \in VecFields THEN [i \in DOMAIN v.a |-> v.a[i].s]
         ELSE IF k \in MapFields THEN [h \in DOMAIN v.f |-> v.f[h].s]
         ELSE (IF v.t = "num" THEN Some(v.n) ELSE None)

\* serde_json::from_str::<Envelope>: [ok, env]
EnvFromJson(j) ==
    IF j.t # "obj" THEN [ok |-> FALSE]
    ELSE IF \A k \in EnvFields : FieldParses(j.f, k)
         THEN [ok |-> TRUE, env |-> [k \in EnvFields |-> FieldFromJson(j.f, k)]]
         ELSE [ok |-> FALSE]

\* an Envelope with every optional field empty
BlankEnvelope(role, content) ==
    [k \in EnvFields |->
        IF k = "role" THEN role
        ELSE IF k = "content" THEN content
        ELSE IF k \in {"usage", "meta"} THEN JObj(EmptyMap)
        ELSE <<>>]

-----------------------------------------------------------------------------
(* The Redis store behind Bus: streams of (id, fields) entries and consumer *)
(* groups, as the commands issued in crates/bus/src/lib.rs act on them.     *)

\* bound: entries a stream holds before the producers stop
MaxStream == 3

StreamNames == {"in", "out", "in2", "AG1:agent:TestClient:inbox"}
GroupNames == {"ag1_meta"}

\* the id the store assigns to the n-th entry of a stream; "0-0" is before all
StreamId(n) == NatToString(n) \o "-0"

NoGroup == [exists |-> FALSE, last |-> 0, pel |-> {}]

EmptyBus ==
    [streams |-> [s \in StreamNames |-> <<>>],
     exists  |-> {},
     groups  |-> [sg \in StreamNames \X GroupNames |-> NoGroup]]

\* XADD <stream> * <fields>: [bus, id]
XAdd(b, s, fields) ==
    LET n == Len(b.streams[s]) + 1 IN
    [bus |-> [b EXCEPT !.streams[s] = Append(@, [id |-> n, fields |-> fields]),
                       !.exists = @ \cup {s}],
     id  |-> StreamId(n)]

\* the cursor XREAD starts from: "$" is the last id at the time of the call
XReadCursor(b, s, last_id) ==
    IF last_id = "$" THEN Len(b.streams[s])
    ELSE CHOOSE n \in 0..(MaxStream + 1) : StreamId(n) = last_id

\* XREAD STREAMS <stream> <cursor>: every entry after the cursor (no COUNT)
XRead(b, s, cursor) ==
    SubSeq(b.streams[s], cursor + 1, Len(b.streams[s]))

\* XGROUP CREATE <stream> <group> 0 MKSTREAM: [bus, busy]
XGroupCreate_setid(b, s, g) ==
    [bus  |-> [b EXCEPT !.groups[<<s, g>>] = [exists |-> TRUE, last |-> 0, pel |-> {}],
                        !.exists = @ \cup {s}],
     busy |-> b.groups[<<s, g>>].exists]

XGroupCreate(b, s, g) ==
    IF b.groups[<<s, g>>].exists
    THEN [bus |-> b, busy |-> TRUE]                     \* BUSYGROUP
    ELSE [bus  |-> [b EXCEPT !.groups[<<s, g>>] = [exists |-> TRUE, last |-> 0, pel |-> {}],
                             !.exists = @ \cup {s}],
          busy |-> FALSE]

\* XREADGROUP GROUP <group> <consumer> COUNT 1 STREAMS <stream> ">":
\* the first entry never delivered to the group, which becomes pending for
\* the consumer. [bus, nogroup, reply]
XReadGroup(b, s, g, consumer) ==
    LET grp == b.groups[<<s, g>>]
        str == b.streams[s]
    IN  IF ~grp.exists THEN [bus |-> b, nogroup |-> TRUE, reply |-> <<>>]
        ELSE IF grp.last >= Len(str) THEN [bus |-> b, nogroup |-> FALSE, reply |-> <<>>]
        ELSE LET e == str[grp.last + 1] IN
             [bus |-> [b EXCEPT !.groups[<<s, g>>] =
                          [exists |-> TRUE, last |-> e.id,
                           pel |-> grp.pel \cup {[id |-> e.id, consumer |-> consumer, count |-> 1]}]],
              nogroup |-> FALSE,
              reply |-> <<e>>]

\* an acknowledgement that also deletes the entry (XACK and XDEL)
XAck_delete(b, s, g, id) ==
    [b EXCEPT !.groups[<<s, g>>].pel = {p \in @ : StreamId(p.id) # id},
              !.streams[s] = SelectSeq(@, LAMBDA e : StreamId(e.id) # id)]

\* XACK <stream> <group> <id>
XAck(b, s, g, id) ==
    [b EXCEPT !.groups[<<s, g>>].pel = {p \in @ : StreamId(p.id) # id}]

\* extract_env: (id, json) of the first message of an XREAD reply, "env" before "data"
extract_env(reply) ==
    IF reply = <<>> THEN None
    ELSE LET e == reply[1] IN
         IF "env" \in DOMAIN e.fields THEN Some([id |-> StreamId(e.id), json |-> e.fields["env"]])
         ELSE IF "data" \in DOMAIN e.fields THEN Some([id |-> StreamId(e.id), json |-> e.fields["data"]])
         ELSE None

\* Result<Option<Envelope>, BusError>
OkNone == [kind |-> "none"]
OkSome(env) == [kind |-> "some", env |-> env]
Err(what) == [kind |-> "err", err |-> what]

\* a send that appends the envelope twice
send_twice(b, s, env) ==
    XAdd(XAdd(b, s, [data |-> EnvToJson(env)]).bus, s, [data |-> EnvToJson(env)])

\* Bus::send: XADD <stream> * data <json>
send(b, s, env) == XAdd(b, s, [data |-> EnvToJson(env)])

\* recv_block as it was before line 162 replaced get_or_insert: an envelope_id the
\* sender had set survives the read
recv_block_result_get_or_insert(reply) ==
    LET x == extract_env(reply) IN
    IF x = None THEN [kind |-> "none"]
    ELSE LET p == EnvFromJson(Unwrap(x).json) IN
         IF ~p.ok THEN [kind |-> "err", err |-> "json"]
         ELSE [kind |-> "some",
               env |-> IF IsSome(p.env["envelope_id"]) THEN p.env
                       ELSE [p.env EXCEPT !["envelope_id"] = Some(Unwrap(x).id)]]

\* Bus::recv_block once the XREAD reply is in: the envelope of the first entry,
\* its envelope_id overwritten by the entry id
recv_block_result(reply) ==
    LET x == extract_env(reply) IN
    IF x = None THEN OkNone
    ELSE LET p == EnvFromJson(Unwrap(x).json) IN
         IF ~p.ok THEN Err("json")
         ELSE OkSome([p.env EXCEPT !["envelope_id"] = Some(Unwrap(x).id)])

\* Bus::recv_block_group once the XREADGROUP reply is in
recv_block_group_result(reply, group, consumer) ==
    LET x == extract_env(reply) IN
    IF x = None THEN OkNone
    ELSE LET p == EnvFromJson(Unwrap(x).json) IN
         IF ~p.ok THEN Err("json")
         ELSE OkSome([p.env EXCEPT !["envelope_id"] = Some(Unwrap(x).id),
                                   !["consumer_group"] = Some(group),
                                   !["consumer_id"] = Some(consumer)])

-----------------------------------------------------------------------------
(* SpecBus: producers append to a stream and one client reads it with      *)
(* recv_block from a cursor of its choice.                                 *)
(* SpecGroup: producers append and consumers of the group read and ack.    *)

BusStream == "in"
Group == "ag1_meta"
Consumers == {"consumer-1", "consumer-2"}

\* the envelope of tests::round_trip, and one whose sender filled the transport fields
PingEnvelope ==
    [BlankEnvelope("user_request", JObj([text |-> JStr("ping")])) EXCEPT
        !["agent_name"] = Some("tester"),
        !["reply_to"] = Some("tester_inbox"),
        !["envelope_type"] = Some("message"),
        !["correlation_id"] = Some("test-cid")]

StampedEnvelope ==
    [BlankEnvelope("assistant", JStr("pong")) EXCEPT
        !["envelope_id"] = Some("sender-set-id"),
        !["consumer_group"] = Some("other-group"),
        !["delivery_count"] = Some(2),
        !["trace"] = <<"hop">>,
        !["headers"] = [h \in {"x-k"} |-> "v"],
        !["meta"] = JNull]

SendEnvelopes == {PingEnvelope, StampedEnvelope}

\* entries appended by producers that do not go through Bus::send
ForeignFields == {[data |-> NotJson],
                  [env |-> EnvToJson(PingEnvelope), data |-> NotJson]}

LastIds == {"$"} \cup {StreamId(n) : n \in 0..MaxStream}

IdleReader == [pc |-> "idle", stream |-> BusStream, last_id |-> "$", cursor |-> 0,
               len |-> 0, result |-> OkNone]

InitClients == [rb |-> IdleReader,
                gr |-> [consumer |-> "", result |-> OkNone],
                cg |-> [calls |-> 0, result |-> OkNone, busy |-> FALSE, changed |-> FALSE],
                sent |-> [s \in StreamNames |-> <<>>]]

\* a producer calls Bus::send(stream, env)
BusSend(s, e) ==
    /\ Len(bus.streams[s]) < MaxStream
    /\ bus' = send(bus, s, e).bus
    /\ cl' = [cl EXCEPT !.sent[s] = Append(@, Some(e))]
    /\ UNCHANGED <<fs, tl, br, dg, now, nz>>

\* some other producer XADDs an entry of its own making
ForeignAdd(s, fields) ==
    /\ Len(bus.streams[s]) < MaxStream
    /\ bus' = XAdd(bus, s, fields).bus
    /\ cl' = [cl EXCEPT !.sent[s] = Append(@, None)]
    /\ UNCHANGED <<fs, tl, br, dg, now, nz>>

\* Bus::recv_block(stream, last_id, block_ms): the XREAD is issued
RecvBlockCall(s, last_id) ==
    /\ cl.rb.pc \in {"idle", "done"}
    /\ cl' = [cl EXCEPT !.rb = [pc |-> "blocked", stream |-> s, last_id |-> last_id,
                                cursor |-> XReadCursor(bus, s, last_id),
                                len |-> 0, result |-> OkNone]]
    /\ UNCHANGED <<fs, tl, br, bus, dg, now, nz>>

\* ... the XREAD is answered with the entries after the cursor
RecvBlockReturn ==
    /\ cl.rb.pc = "blocked"
    /\ XRead(bus, cl.rb.stream, cl.rb.cursor) # <<>>
    /\ cl' = [cl EXCEPT !.rb.pc = "done",
                        !.rb.len = Len(bus.streams[cl.rb.stream]),
                        !.rb.result = recv_block_result(XRead(bus, cl.rb.stream, cl.rb.cursor))]
    /\ UNCHANGED <<fs, tl, br, bus, dg, now, nz>>

\* ... or block_ms pass with no entry after the cursor
RecvBlockTimeout ==
    /\ cl.rb.pc = "blocked"
    /\ XRead(bus, cl.rb.stream, cl.rb.cursor) = <<>>
    /\ cl' = [cl EXCEPT !.rb.pc = "done",
                        !.rb.len = Len(bus.streams[cl.rb.stream]),
                        !.rb.result = recv_block_result(<<>>)]
    /\ UNCHANGED <<fs, tl, br, bus, dg, now, nz>>

\* Bus::create_consumer_group(stream, group): BUSYGROUP is success
create_consumer_group(b, s, g) ==
    LET r == XGroupCreate(b, s, g) IN
    [bus |-> r.bus,
     busy |-> r.busy,
     result |-> IF ~r.busy THEN OkNone          \* Ok(_) => Ok(())
                ELSE OkNone]                    \* "BUSYGROUP" => Ok(())

\* a client calls Bus::create_consumer_group(stream, group); cl.cg keeps the
\* outcome of the latest call: whether the group was there already, and
\* whether the call changed the stream's entries or the group
CreateConsumerGroup(s, g) ==
    LET r == create_consumer_group(bus, s, g) IN
    /\ bus' = r.bus
    /\ cl' = [cl EXCEPT !.cg = [calls |-> Min(@.calls + 1, 2),
                                result |-> r.result,
                                busy |-> r.busy,
                                changed |-> \/ r.bus.streams[s] # bus.streams[s]
                                            \/ r.bus.groups[<<s, g>>] # bus.groups[<<s, g>>]]]
    /\ UNCHANGED <<fs, tl, br, dg, now, nz>>

\* Bus::recv_block_group(stream, group, consumer, block_ms), from the XREADGROUP
\* to its answer: an entry new to the group, or nothing when block_ms have passed
RecvBlockGroup(s, g, c) ==
    LET r == XReadGroup(bus, s, g, c) IN
    /\ bus' = r.bus
    /\ cl' = [cl EXCEPT !.gr = [consumer |-> c,
                                result |-> IF r.nogroup THEN Err("redis")
                                           ELSE recv_block_group_result(r.reply, g, c)]]
    /\ UNCHANGED <<fs, tl, br, dg, now, nz>>

\* Bus::ack_message(stream, group, id)
AckMessage(s, g, id) ==
    /\ bus' = XAck(bus, s, g, id)
    /\ UNCHANGED <<fs, tl, br, cl, dg, now, nz>>

InitIdle ==
    /\ bus = EmptyBus
    /\ cl = InitClients
    /\ dg = <<>>
    /\ now = 0
    /\ nz = <<>>
    /\ fs = <<>>
    /\ tl = <<>>
    /\ br = <<>>

InitBus == InitIdle

NextBus ==
    \/ \E e \in SendEnvelopes : BusSend(BusStream, e)
    \/ \E f \in ForeignFields : ForeignAdd(BusStream, f)
    \/ \E l \in LastIds : RecvBlockCall(BusStream, l)
    \/ RecvBlockReturn
    \/ RecvBlockTimeout

SpecBus == InitBus /\ [][NextBus]_vars

NextGroup ==
    \/ \E e \in SendEnvelopes : BusSend(BusStream, e)
    \/ CreateConsumerGroup(BusStream, Group)
    \/ \E c \in Consumers : RecvBlockGroup(BusStream, Group, c)
    \/ \E n \in 1..MaxStream : AckMessage(BusStream, Group, StreamId(n))

SpecGroup == InitBus /\ [][NextGroup]_vars

\* the consumers keep reading: every readGroupBlocking that can claim, or can
\* time out, eventually does
SpecGroupFair ==
    SpecGroup /\ WF_vars(\E c \in Consumers : RecvBlockGroup(BusStream, Group, c))

-----------------------------------------------------------------------------
(* C9 *)

\* the envelope a read of the entry with number i must return for it: the one
\* passed to send, with the entry id as envelope_id
RoundTripOf(s, i) ==
    OkSome([Unwrap(cl.sent[s][i]) EXCEPT !["envelope_id"] = Some(StreamId(i))])

\* C9 as stated: for ANY sent envelope e in the stream when a recv_block that
\* started before e's id returned, the read returned e with e's entry id.
C9_RoundTripAnyEarlierCursor ==
    cl.rb.pc = "done" =>
        \A i \in 1..cl.rb.len :
            (cl.rb.cursor < i /\ IsSome(cl.sent[cl.rb.stream][i]))
                => cl.rb.result = RoundTripOf(cl.rb.stream, i)

\* C9 amended: a recv_block returns the FIRST entry after its cursor; when that
\* entry was appended by send(e), the result equals e in every field but
\* envelope_id, and envelope_id is the id the store assigned, whatever the
\* sender had put there.
C9_RoundTripNextEntry ==
    (cl.rb.pc = "done" /\ cl.rb.cursor < cl.rb.len
                       /\ IsSome(cl.sent[cl.rb.stream][cl.rb.cursor + 1]))
        => cl.rb.result = RoundTripOf(cl.rb.stream, cl.rb.cursor + 1)

\* a read from a later cursor returned the envelope whose sender had set envelope_id
C9_Witness ==
    /\ cl.rb.pc = "done"
    /\ cl.rb.cursor >= 1
    /\ cl.rb.cursor < cl.rb.len
    /\ cl.sent[cl.rb.stream][cl.rb.cursor + 1] = Some(StampedEnvelope)
    /\ cl.rb.result.kind = "some"
    /\ cl.rb.result.env["envelope_id"] = Some(StreamId(cl.rb.cursor + 1))

-----------------------------------------------------------------------------
(* C8 *)

Pending(s, g, i) == \E p \in bus.groups[<<s, g>>].pel : p.id = i
Redelivered(s, g, i) == \E p \in bus.groups[<<s, g>>].pel : p.id = i /\ p.count >= 2

\* C8: an entry delivered to a consumer of the group and not acknowledged is
\* delivered again by a later group read (or it gets acknowledged after all).
C8_UnackedIsRedelivered ==
    \A i \in 1..MaxStream :
        Pending(BusStream, Group, i)
            ~> (~Pending(BusStream, Group, i) \/ Redelivered(BusStream, Group, i))

-----------------------------------------------------------------------------
(* SpecNorm: the content normalisation of ag1_meta.                        *)

RECURSIVE JoinTexts(_)
\* the texts of a sequence, separated by commas
JoinTexts(ts) ==
    IF ts = <<>> THEN ""
    ELSE IF Len(ts) = 1 THEN ts[1]
    ELSE ts[1] \o "," \o JoinTexts(Tail(ts))

RECURSIVE to_string(_)
\* Value::to_string / serde_json::to_string: the compact JSON text of a value
\* (objects of at most one key: no key order is modelled)
to_string(v) ==
    IF v.t = "null" THEN "null"
    ELSE IF v.t = "bool" THEN (IF v.b THEN "true" ELSE "false")
    ELSE IF v.t = "num" THEN (IF v.n < 0 THEN "-" \o NatToString(0 - v.n) ELSE NatToString(v.n))
    ELSE IF v.t = "str" THEN "\"" \o v.s \o "\""
    ELSE IF v.t = "arr" THEN "[" \o JoinTexts([i \in DOMAIN v.a |-> to_string(v.a[i])]) \o "]"
    ELSE IF DOMAIN v.f = {} THEN "{}"
    ELSE LET k == CHOOSE k \in DOMAIN v.f : TRUE IN
         "{\"" \o k \o "\":" \o to_string(v.f[k]) \o "}"

\* an object is left as it came
WithTextKey_untouched(f) == f

\* obj.insert("text", json!("")) when the key is missing
WithTextKey(f) ==
    IF "text" \in DOMAIN f THEN f
    ELSE [k \in DOMAIN f \cup {"text"} |-> IF k = "text" THEN JStr("") ELSE f[k]]

\* normalize_content (lib.rs:1-26)
normalize_content(content) ==
    LET obj == IF content.t = "obj" THEN content.f
               ELSE IF content.t = "null" THEN [text |-> JStr("")]
               ELSE [text |-> JStr(IF content.t = "str" THEN content.s
                                   ELSE to_string(content))]
    IN JObj(WithTextKey(obj))

\* delegate_with_opts, lib.rs:140-150: the match on the caller's content
delegate_match_content(content) ==
    IF content.t = "str" THEN JObj([text |-> JStr(content.s)])
    ELSE IF content.t = "obj" THEN JObj(WithTextKey(content.f))
    ELSE JObj([text |-> JStr(to_string(content))])

\* delegate_with_opts, lib.rs:156-166: the last check
delegate_ensure_text(content) ==
    IF content.t = "obj" THEN JObj(WithTextKey(content.f))
    ELSE JObj([text |-> JStr(to_string(content))])

\* the content of the request envelope delegate_with_opts builds (lib.rs:140-166)
delegate_content(content) ==
    delegate_ensure_text(normalize_content(delegate_match_content(content)))

\* create_envelope (lib.rs:28-54)
create_envelope(content, role) == BlankEnvelope(role, normalize_content(content))

Scalars == {JNull, JBool(TRUE), JBool(FALSE), JNum(0), JNum(42), JNum(-7),
            JStr("hello"), JStr(""), JStr("text")}

\* the contents a caller passes: scalars, arrays, objects with and without text
Contents ==
    Scalars
    \cup {JArr(<<>>), JArr(<<JNum(1), JStr("a")>>), JArr(<<JNull>>)}
    \cup {JObj(EmptyMap), JObj([other |-> JStr("x")]), JObj([session_id |-> JNum(1)])}
    \cup {JObj([text |-> v]) : v \in Scalars \cup {JArr(<<JNum(1)>>), JObj(EmptyMap)}}
    \cup {JObj([text |-> v, other |-> JStr("x")]) : v \in {JStr("hi"), JNull}}

InitNorm ==
    /\ bus = EmptyBus
    /\ cl = InitClients
    /\ dg = <<>>
    /\ now = 0
    /\ nz \in {[in |-> c, stage |-> "input", value |-> c] : c \in Contents}
    /\ fs = <<>>
    /\ tl = <<>>
    /\ br = <<>>

\* delegate_with_opts reaches line 150
NormMatch ==
    /\ nz.stage = "input"
    /\ nz' = [nz EXCEPT !.stage = "matched", !.value = delegate_match_content(nz.in)]
    /\ UNCHANGED <<fs, tl, br, bus, cl, dg, now>>

\* ... line 152
NormNormalize ==
    /\ nz.stage = "matched"
    /\ nz' = [nz EXCEPT !.stage = "normalized", !.value = normalize_content(nz.value)]
    /\ UNCHANGED <<fs, tl, br, bus, cl, dg, now>>

\* ... line 166: the content the request envelope carries
NormEnsure ==
    /\ nz.stage = "normalized"
    /\ nz' = [nz EXCEPT !.stage = "delegated", !.value = delegate_ensure_text(nz.value)]
    /\ UNCHANGED <<fs, tl, br, bus, cl, dg, now>>

\* create_envelope(content, role, meta) is called with the same content
NormCreateEnvelope ==
    /\ nz.stage = "input"
    /\ nz' = [nz EXCEPT !.stage = "created", !.value = create_envelope(nz.in, "user")["content"]]
    /\ UNCHANGED <<fs, tl, br, bus, cl, dg, now>>

NextNorm == NormMatch \/ NormNormalize \/ NormEnsure \/ NormCreateEnvelope

SpecNorm == InitNorm /\ [][NextNorm]_vars

-----------------------------------------------------------------------------
(* C10 *)

\* the text field a content object carries
TextOf(content) == content.f["text"]

\* C10: the request envelope delegate builds for "hello", 42 and null carries
\* a content object whose text is "hello", "42" and "" respectively.
C10_DelegateNormalizes ==
    nz.stage = "delegated" =>
        /\ nz.value.t = "obj"
        /\ "text" \in DOMAIN nz.value.f
        /\ (nz.in = JStr("hello") => TextOf(nz.value) = JStr("hello"))
        /\ (nz.in = JNum(42) => TextOf(nz.value) = JStr("42"))
        /\ (nz.in = JNull => TextOf(nz.value) = JStr(""))

-----------------------------------------------------------------------------
(* Spec: delegate_with_opts calls (ag1_meta/src/lib.rs:97-229) against the  *)
(* store, with a clock. A call's own steps take no time; time passes only   *)
(* while every running call is blocked in XREADGROUP.                       *)

\* let slice_ms: u64 = 800
slice_ms == 800

\* bounds: the clock step and the time after which the clock stops
TickMs == 400
MaxTime == 2400

\* the timeout_ms a caller passes
Timeouts == {0, 400, 1200}

Delegators == {"d1", "d2"}

\* the caller's reply inbox (reg.goose_inbox) and the target's inbox (info.inbox)
in_stream == "in"
out_stream == "out"

\* Uuid::new_v4() of one call: the correlation id and the consumer id
CidOf(d) == "cid-" \o d
ConsumerOf(d) == "consumer-" \o d

IdleCall == [pc |-> "idle", timeout_ms |-> 0, start |-> 0, block |-> 0, deadline |-> 0,
             reply |-> None, result |-> [kind |-> "running"],
             claimed |-> {}, replied |-> FALSE, in_time |-> FALSE, ended |-> 0,
             \* SpecFault: the name the caller asked for and the transport
             \* operation (group, send, read) that failed first
             target |-> "", failed |-> "",
             \* SpecFault: the claimed reply whose XACK failed last
             unacked |-> None]

\* the target argument of delegate_with_opts: the name that
\* delegate_to_name_with_opts was asked for (lib.rs:78-79), "goose" when the
\* caller calls delegate_with_opts itself
TargetOf(d) == IF dg[d].target = "" THEN "goose" ELSE dg[d].target

\* the request envelope (lib.rs:168-193)
RequestEnvelope(d, content, role, envelope_type) ==
    [BlankEnvelope(role, delegate_content(content)) EXCEPT
        !["agent_name"] = Some("ag1goose"),
        !["target"] = Some(TargetOf(d)),
        !["reply_to"] = Some(in_stream),
        !["envelope_type"] = Some(envelope_type),
        !["timestamp"] = Some(NatToString(now)),
        !["envelope_id"] = Some(CidOf(d)),
        !["correlation_id"] = Some(CidOf(d))]

\* what the addressed agent answers (bridge.rs:213-240), and unrelated traffic
ReplyEnvelope(cid) ==
    [BlankEnvelope("assistant", JObj([text |-> JStr("pong")])) EXCEPT
        !["agent_name"] = Some("GooseAgent"),
        !["reply_to"] = Some(in_stream),
        !["envelope_type"] = Some("message_reply"),
        !["correlation_id"] = cid]

UnrelatedCids == {None, Some("cid-other")}

\* bail!("no reply within {} ms (cid={})", timeout_ms, cid)
timeout_error(timeout_ms, cid) == [kind |-> "timeout", ms |-> timeout_ms, cid |-> cid]

\* a loop that tests elapsed > timeout_ms instead
timed_out_after(elapsed, timeout_ms) == elapsed > timeout_ms

\* if elapsed >= timeout_ms (lib.rs:210)
timed_out(elapsed, timeout_ms) == elapsed >= timeout_ms

\* a loop that blocks for a whole slice every time
block_ms_uncapped(elapsed, timeout_ms) == slice_ms

\* let block = slice_ms.min(timeout_ms - elapsed) (lib.rs:213)
block_ms(elapsed, timeout_ms) == Min(slice_ms, timeout_ms - elapsed)

\* a loop that returns whatever it claims
reply_matches_any(reply, cid) == TRUE

\* reply.correlation_id.as_deref() == Some(&cid) (lib.rs:219)
reply_matches(reply, cid) == reply["correlation_id"] = Some(cid)

\* is an entry new to the group waiting on the reply inbox?
GroupHasNew == bus.groups[<<in_stream, Group>>].last < Len(bus.streams[in_stream])

\* a caller enters delegate_with_opts (lib.rs:107-131)
DelegateCall(d, t) ==
    /\ dg[d].pc = "idle"
    /\ dg' = [dg EXCEPT ![d].pc = "group", ![d].timeout_ms = t]
    /\ UNCHANGED <<fs, tl, br, bus, cl, now, nz>>

\* bus.create_consumer_group(in_stream, group); an error is only printed (lib.rs:132-135)
DelegateEnsureGroup(d) ==
    /\ dg[d].pc = "group"
    /\ bus' = XGroupCreate(bus, in_stream, Group).bus
    /\ dg' = [dg EXCEPT ![d].pc = "send"]
    /\ UNCHANGED <<fs, tl, br, cl, now, nz>>

\* the request is built and sent; the wait starts (lib.rs:138-206)
DelegateSend(d) ==
    /\ dg[d].pc = "send"
    /\ bus' = send(bus, out_stream, RequestEnvelope(d, JStr("hello"), "user", "message")).bus
    /\ dg' = [dg EXCEPT ![d].pc = "loop", ![d].start = now]
    /\ UNCHANGED <<fs, tl, br, cl, now, nz>>

\* the head of the wait loop (lib.rs:209-216): bail out, or issue the next XREADGROUP
DelegateLoop(d) ==
    LET elapsed == now - dg[d].start IN
    /\ dg[d].pc = "loop"
    /\ IF timed_out(elapsed, dg[d].timeout_ms)
       THEN dg' = [dg EXCEPT ![d].pc = "done", ![d].ended = now,
                             ![d].result = timeout_error(dg[d].timeout_ms, CidOf(d))]
       ELSE dg' = [dg EXCEPT ![d].pc = "read",
                             ![d].block = block_ms(elapsed, dg[d].timeout_ms),
                             ![d].deadline = now + block_ms(elapsed, dg[d].timeout_ms)]
    /\ UNCHANGED <<fs, tl, br, bus, cl, now, nz>>

\* the XREADGROUP claims an entry for this call's consumer (lib.rs:215-218)
DelegateRecv(d) ==
    LET r == XReadGroup(bus, in_stream, Group, ConsumerOf(d))
        res == recv_block_group_result(r.reply, Group, ConsumerOf(d))
    IN
    /\ dg[d].pc = "read"
    /\ ~r.nogroup
    /\ r.reply # <<>>
    /\ bus' = r.bus
    /\ dg' = [dg EXCEPT
                ![d].claimed = @ \cup {r.reply[1].id},
                ![d].pc = IF res.kind = "some" THEN "ack"
                          ELSE IF res.kind = "none" THEN "loop" ELSE "done",
                ![d].reply = IF res.kind = "some" THEN Some(res.env) ELSE None,
                ![d].ended = IF res.kind = "err" THEN now ELSE @,
                ![d].result = IF res.kind = "err" THEN res ELSE @]
    /\ UNCHANGED <<fs, tl, br, cl, now, nz>>

\* the XREADGROUP returns nothing after its block time; BLOCK 0 never does
DelegateRecvNone(d) ==
    /\ dg[d].pc = "read"
    /\ bus.groups[<<in_stream, Group>>].exists
    /\ ~GroupHasNew
    /\ dg[d].block > 0
    /\ now >= dg[d].deadline
    /\ dg' = [dg EXCEPT ![d].pc = "loop"]
    /\ UNCHANGED <<fs, tl, br, bus, cl, now, nz>>

\* the claimed reply is acknowledged, then returned or dropped (lib.rs:219-226)
DelegateAck(d) ==
    LET reply == Unwrap(dg[d].reply) IN
    /\ dg[d].pc = "ack"
    /\ bus' = IF IsSome(reply["envelope_id"])
              THEN XAck(bus, in_stream, Group, Unwrap(reply["envelope_id"]))
              ELSE bus
    /\ dg' = [dg EXCEPT
                ![d].reply = None,
                ![d].ended = IF reply_matches(reply, CidOf(d)) THEN now ELSE @,
                ![d].pc = IF reply_matches(reply, CidOf(d)) THEN "done" ELSE "loop",
                ![d].result = IF reply_matches(reply, CidOf(d)) THEN OkSome(reply) ELSE @]
    /\ UNCHANGED <<fs, tl, br, cl, now, nz>>

\* the addressed agent answers, once, a request it has received; in_time
\* records that the answer was appended before the call's deadline
AgentReply(d) ==
    /\ dg[d].pc \in {"loop", "read", "ack", "done"}
    /\ ~dg[d].replied
    /\ Len(bus.streams[in_stream]) < MaxStream
    /\ bus' = send(bus, in_stream, ReplyEnvelope(Some(CidOf(d)))).bus
    /\ dg' = [dg EXCEPT ![d].replied = TRUE,
                        ![d].in_time = dg[d].pc # "done"
                                       /\ now - dg[d].start < dg[d].timeout_ms]
    /\ UNCHANGED <<fs, tl, br, cl, now, nz>>

\* someone else's envelope arrives on the reply inbox
UnrelatedArrives(cid) ==
    /\ Len(bus.streams[in_stream]) < MaxStream
    /\ bus' = send(bus, in_stream, ReplyEnvelope(cid)).bus
    /\ UNCHANGED <<fs, tl, br, cl, dg, now, nz>>

\* a call is blocked in XREADGROUP with nothing to claim and block time left
Blocked(d) ==
    /\ dg[d].pc = "read"
    /\ ~GroupHasNew
    /\ (dg[d].block = 0 \/ now < dg[d].deadline)

Tick ==
    /\ now + TickMs <= MaxTime
    /\ \A d \in Delegators : dg[d].pc \in {"idle", "done"} \/ Blocked(d)
    /\ now' = now + TickMs
    /\ UNCHANGED <<fs, tl, br, bus, cl, dg, nz>>

Init ==
    /\ bus = EmptyBus
    /\ cl = InitClients
    /\ dg = [d \in Delegators |-> IdleCall]
    /\ now = 0
    /\ nz = <<>>
    /\ fs = <<>>
    /\ tl = <<>>
    /\ br = <<>>

\* one call at a time, with any timeout, among unrelated traffic
Callers == {"d1"}

Next ==
    \/ \E d \in Callers, t \in Timeouts : DelegateCall(d, t)
    \/ \E d \in Callers : DelegateEnsureGroup(d)
    \/ \E d \in Callers : DelegateSend(d)
    \/ \E d \in Callers : DelegateLoop(d)
    \/ \E d \in Callers : DelegateRecv(d)
    \/ \E d \in Callers : DelegateRecvNone(d)
    \/ \E d \in Callers : DelegateAck(d)
    \/ \E d \in Callers : AgentReply(d)
    \/ \E c \in UnrelatedCids : UnrelatedArrives(c)
    \/ Tick

Spec == Init /\ [][Next]_vars

\* two calls of one process, both on reg.goose_inbox
ConcurrentTimeouts == {400, 1200}

NextConcurrent ==
    \/ \E d \in Delegators, t \in ConcurrentTimeouts : DelegateCall(d, t)
    \/ \E d \in Delegators : DelegateEnsureGroup(d)
    \/ \E d \in Delegators : DelegateSend(d)
    \/ \E d \in Delegators : DelegateLoop(d)
    \/ \E d \in Delegators : DelegateRecv(d)
    \/ \E d \in Delegators : DelegateRecvNone(d)
    \/ \E d \in Delegators : DelegateAck(d)
    \/ \E d \in Delegators : AgentReply(d)
    \/ Tick

SpecConcurrent == Init /\ [][NextConcurrent]_vars

-----------------------------------------------------------------------------
(* C1, C2, C3 *)

\* the envelope stored as entry i of the reply inbox
InboxEnvelope(i) == EnvFromJson(bus.streams[in_stream][i].fields["data"]).env

\* C1: a call waiting for correlation id A returns only an envelope whose
\* correlation_id is A; every other envelope it claimed before that has been
\* acknowledged (it is off the group's pending list) and is not what the call
\* returns - the one exception being the envelope it holds right now, between
\* the claim and the acknowledgement. All arrival orders are explored.
C1_CorrelationMatching ==
    \A d \in Delegators :
        /\ dg[d].result.kind = "some"
              => dg[d].result.env["correlation_id"] = Some(CidOf(d))
        /\ \A i \in dg[d].claimed :
              InboxEnvelope(i)["correlation_id"] # Some(CidOf(d))
                 => \/ /\ dg[d].pc = "ack"
                       /\ Unwrap(dg[d].reply)["envelope_id"] = Some(StreamId(i))
                    \/ /\ ~Pending(in_stream, Group, i)
                       /\ dg[d].result.kind = "some"
                             => dg[d].result.env["envelope_id"] # Some(StreamId(i))

\* the call claimed and dropped a foreign envelope, then returned its own reply
C1_Witness ==
    /\ dg["d1"].pc = "done"
    /\ dg["d1"].result.kind = "some"
    /\ \E i, j \in dg["d1"].claimed :
          /\ i < j
          /\ InboxEnvelope(i)["correlation_id"] = Some("cid-other")
          /\ InboxEnvelope(j)["correlation_id"] = Some(CidOf("d1"))

\* C2: of two concurrent calls on the same reply inbox, each returns its own
\* reply when that reply was appended before the call's deadline.
C2_EachCallGetsItsReply ==
    \A d \in Delegators :
        (dg[d].pc = "done" /\ dg[d].in_time) => dg[d].result.kind = "some"

\* C3: with no envelope carrying the call's correlation id appended, the call
\* ends with the timeout error naming its correlation id, no later than one
\* slice after timeout_ms, and is never found waiting later than that -
\* whatever unrelated envelopes arrive meanwhile.
C3_TimeoutBoundary ==
    \A d \in Delegators :
        ~dg[d].replied =>
            /\ dg[d].pc = "done"
                  => /\ dg[d].result = [kind |-> "timeout", ms |-> dg[d].timeout_ms,
                                        cid |-> CidOf(d)]
                     /\ dg[d].ended - dg[d].start <= dg[d].timeout_ms + slice_ms
            /\ dg[d].pc \in {"loop", "read", "ack"}
                  => now - dg[d].start <= dg[d].timeout_ms + slice_ms

\* a call with a timeout of more than a slice timed out after draining unrelated envelopes
C3_Witness ==
    /\ dg["d1"].pc = "done"
    /\ ~dg["d1"].replied
    /\ dg["d1"].timeout_ms > slice_ms
    /\ Cardinality(dg["d1"].claimed) >= 2
    /\ dg["d1"].result.kind = "timeout"
    /\ dg["d1"].ended >= dg["d1"].start + dg["d1"].timeout_ms

-----------------------------------------------------------------------------
(* SpecTail: the session log file and GooseSession::wait_assistant_jsonl    *)
(* (ag1goose-bridge/src/session.rs:356-592).                                *)
(*                                                                         *)
(* The file is a sequence of bytes. A record is written in a compact       *)
(* syntax of one byte per token: "{", the role ("A" an assistant record    *)
(* with content[0].text, "U" any other record), the text, "}"; lines end   *)
(* in "\n". "m" is a diagnostic line of mcp_client::transport::stdio,      *)
(* "#" any other line that is not JSON.                                     *)
(* The reader is tokio_util::codec::FramedRead (0.7) over LinesCodec.       *)

NL == "\n"
Roles == {"A", "U"}
McpSym == "m"
JunkSym == "#"

\* bounds: lines the writer produces, calls the caller makes
MaxWrites == 2
MaxCalls == 2

\* where a record written in two writes is cut: inside the text, before the
\* closing brace, before the newline
Cuts == {3, 4, 5}

\* tokio::time::sleep(Duration::from_millis(50)) (session.rs:549)
sleep_ms == 50

\* the timeout_ms a caller of wait_assistant_jsonl passes
TailTimeouts == {50}

TextSyms == {"x"} \cup {Digits[i] : i \in DOMAIN Digits}

\* record number k of a role, without its newline; its text is k followed by "x"
Record(role, k) == <<"{", role, NatToString(k), "x", "}">>
RecordText(k) == <<NatToString(k), "x">>

IsText(s) == \A i \in DOMAIN s : s[i] \in TextSyms

\* serde_json::from_str::<Value>(&buffer) (session.rs:455): a value, an error
\* with is_eof() (the text stops inside a value), or any other error
from_str(buf) ==
    IF buf = <<>> THEN [kind |-> "eof"]
    ELSE IF buf[1] # "{" THEN [kind |-> "syntax"]
    ELSE IF Len(buf) = 1 THEN [kind |-> "eof"]
    ELSE IF buf[2] \notin Roles THEN [kind |-> "syntax"]
    ELSE IF IsText(SubSeq(buf, 3, Len(buf))) THEN [kind |-> "eof"]
    ELSE IF buf[Len(buf)] = "}" /\ IsText(SubSeq(buf, 3, Len(buf) - 1))
         THEN [kind |-> "ok", role |-> buf[2], text |-> SubSeq(buf, 3, Len(buf) - 1)]
    ELSE [kind |-> "syntax"]

\* line.contains("mcp_client::transport::stdio") (session.rs:443)
contains_mcp(line) == \E i \in DOMAIN line : line[i] = McpSym

HasLine(buf) == \E i \in DOMAIN buf : buf[i] = NL
FirstNL(buf) == CHOOSE i \in DOMAIN buf : buf[i] = NL /\ \A j \in 1..(i - 1) : buf[j] # NL

\* File::open + seek(SeekFrom::Start(offset)) + FramedRead::new (session.rs:385-409, 554-567)
open_at(offset, gen) ==
    [pos |-> offset, buf |-> <<>>, eof |-> FALSE, is_readable |-> FALSE,
     gen |-> gen, old |-> <<>>]

\* a frame handed out by the codec: the line, whether a newline ended it, and
\* what is left in the read buffer
Frame(r, line, nl, rest) == [r |-> [r EXCEPT !.buf = rest], item |-> Some(line), nl |-> nl]
NoFrame(r) == [r |-> r, item |-> None, nl |-> FALSE]

\* LinesCodec::decode: the line up to the first newline, if there is one
decode(r) ==
    LET i == FirstNL(r.buf) IN
    Frame(r, SubSeq(r.buf, 1, i - 1), TRUE, SubSeq(r.buf, i + 1, Len(r.buf)))

RECURSIVE poll_next(_, _)
\* FramedRead::poll_next against the bytes the open file holds now
poll_next(r, content) ==
    IF r.is_readable
    THEN IF r.eof
         THEN \* decode_eof: a line, or what is left without a newline, or nothing
              IF HasLine(r.buf) THEN decode(r)
              ELSE IF r.buf = <<>> THEN NoFrame([r EXCEPT !.is_readable = FALSE])
              ELSE Frame(r, r.buf, FALSE, <<>>)
         ELSE IF HasLine(r.buf) THEN decode(r)
              ELSE poll_next([r EXCEPT !.is_readable = FALSE], content)
    ELSE LET n == IF Len(content) > r.pos THEN Len(content) - r.pos ELSE 0 IN
         IF n = 0
         THEN IF r.eof THEN NoFrame(r)
              ELSE poll_next([r EXCEPT !.eof = TRUE, !.is_readable = TRUE], content)
         ELSE poll_next([r EXCEPT !.buf = @ \o SubSeq(content, r.pos + 1, r.pos + n),
                                  !.pos = @ + n,
                                  !.eof = FALSE,
                                  !.is_readable = TRUE], content)

\* a caller that gets back the offset it passed
advance_nothing(offset, line) == offset

\* current_offset += line.len() as u64 + 1 (session.rs:434)
advance(offset, line) == offset + Len(line) + 1

OkReply(text, offset) == [kind |-> "ok", text |-> text, offset |-> offset]
TailTimeoutError(ms) == [kind |-> "timeout", ms |-> ms]
Running == [kind |-> "running"]

\* the body of Ok(Some(Ok(line))) (session.rs:432-511)
on_line(t, line) ==
    LET off == advance(t.current_offset, line)
        t1 == [t EXCEPT !.current_offset = off]
    IN
    IF contains_mcp(line) THEN t1
    ELSE LET buf == t.buffer \o line
             p == from_str(buf)
         IN
         IF p.kind = "ok"
         THEN IF p.role = "A"
              THEN [t1 EXCEPT !.buffer = <<>>, !.pc = "done", !.result = OkReply(p.text, off)]
              ELSE [t1 EXCEPT !.buffer = <<>>]
         ELSE IF p.kind = "eof" THEN [t1 EXCEPT !.buffer = buf]
         ELSE [t1 EXCEPT !.buffer = <<>>]

NoFile == [file |-> <<>>, gen |-> 0, rest |-> <<>>, nrec |-> 0, nwrites |-> 0,
           log |-> <<>>, parts |-> {},
           \* SpecBridge: the turns whose input the subprocess has read
           inputs |-> {}]

IdleTail ==
    [pc |-> "idle", timeout_ms |-> 0, start_offset |-> 0, start_time |-> 0,
     current_offset |-> 0, last_file_size |-> 0, buffer |-> <<>>,
     reader |-> open_at(0, 0), result |-> Running,
     \* the caller: GooseSession.last_offset, and what the last successful call returned
     last_offset |-> 0, prev |-> None, calls |-> 0,
     \* history: the file positions of the lines handed to the loop, where the
     \* text in the buffer began, and the file generation at the call
     lines |-> <<>>, rec_at |-> 0, gen0 |-> 0]

\* the bytes the reader's open file holds: the file at the path, or the one
\* that was at the path when it was opened
HandleContent(r) == IF r.gen = fs.gen THEN fs.file ELSE r.old

Waiting == tl.pc \in {"loop", "stat"}

\* wait_assistant_jsonl(timeout_ms, start_offset) up to its loop (session.rs:356-413)
begin_wait(t, timeout_ms, start_offset) ==
    [t EXCEPT !.pc = "loop", !.timeout_ms = timeout_ms,
              !.start_offset = start_offset, !.start_time = now,
              !.current_offset = start_offset, !.last_file_size = start_offset,
              !.buffer = <<>>, !.reader = open_at(start_offset, fs.gen),
              !.result = Running, !.calls = @ + 1,
              !.lines = <<>>, !.rec_at = 0, !.gen0 = fs.gen]

\* the caller waits from its last_offset (bridge.rs:181, 192)
TailCall(t) ==
    /\ tl.pc = "idle"
    /\ tl.calls < MaxCalls
    /\ tl' = begin_wait(tl, t, tl.last_offset)
    /\ UNCHANGED <<bus, cl, dg, now, nz, fs, br>>

\* if elapsed > timeout_duration { break } (session.rs:418-426, 588-591)
TailTimeout ==
    /\ tl.pc = "loop"
    /\ now - tl.start_time > tl.timeout_ms
    /\ tl' = [tl EXCEPT !.pc = "done", !.result = TailTimeoutError(tl.timeout_ms)]
    /\ UNCHANGED <<bus, cl, dg, now, nz, fs, br>>

\* reader.next() and the line it hands out, if any (session.rs:428-511, 530)
TailPoll ==
    LET p == poll_next(tl.reader, HandleContent(tl.reader))
        line == Unwrap(p.item)
        used == Len(line) + (IF p.nl THEN 1 ELSE 0)
        from == p.r.pos - Len(p.r.buf) - used + 1
    IN
    /\ tl.pc = "loop"
    /\ ~(now - tl.start_time > tl.timeout_ms)
    /\ tl' = IF p.item = None
             THEN [tl EXCEPT !.pc = "stat", !.reader = p.r]
             ELSE [on_line(tl, line) EXCEPT
                      !.reader = p.r,
                      !.lines = Append(@, [from |-> from, to |-> from + used - 1]),
                      !.rec_at = IF tl.buffer = <<>> THEN from ELSE @]
    /\ UNCHANGED <<bus, cl, dg, now, nz, fs, br>>

\* the idle rounds of the loop (no line, file not grown, sleep) that fit before
\* the timeout check at the loop's head fails
rounds_left(t) == (t.timeout_ms - (now - t.start_time)) \div sleep_ms + 1

\* all of them, or half of them
idle_rounds(t, all) == IF all THEN rounds_left(t) ELSE (rounds_left(t) + 1) \div 2

\* Ok(None): the size of the file at the path is compared with the last one
\* seen; the loop sleeps, or reopens the file at current_offset
\* (session.rs:530-579). With the file unchanged, the rounds after the first
\* repeat it: all that are left, or half of them, are taken in one step.
TailStat(all) ==
    LET current_size == Len(fs.file) IN
    /\ tl.pc = "stat"
    /\ IF current_size <= tl.last_file_size
       THEN /\ now' = now + idle_rounds(tl, all) * sleep_ms
            /\ tl' = [tl EXCEPT !.pc = "loop"]
       ELSE /\ now' = now
            /\ tl' = [tl EXCEPT !.pc = "loop",
                                !.reader = open_at(tl.current_offset, fs.gen),
                                !.last_file_size = current_size]
    /\ UNCHANGED <<bus, cl, dg, nz, fs, br>>

\* a caller that forgets the offset when the wait fails
stored_offset_reset(last_offset, res) == IF res.kind = "ok" THEN res.offset ELSE 0

\* the last_offset of the session after the match on the result of the wait:
\* session.update_offset(new_offset) in the Ok arm only (bridge.rs:192-205,
\* session.rs:336-338)
stored_offset(last_offset, res) == IF res.kind = "ok" THEN res.offset ELSE last_offset

\* the caller takes the result; on Ok it stores the offset (bridge.rs:193-196)
TailReturn ==
    /\ tl.pc = "done"
    /\ tl' = IF tl.result.kind = "ok"
             THEN [tl EXCEPT !.pc = "idle",
                             !.last_offset = stored_offset(@, tl.result),
                             !.prev = Some([offset |-> tl.result.offset, rec_at |-> tl.rec_at])]
             ELSE [tl EXCEPT !.pc = "idle", !.last_offset = stored_offset(@, tl.result)]
    /\ UNCHANGED <<bus, cl, dg, now, nz, fs, br>>

\* the writer appends bytes to the file; an assistant record written whole is
\* logged with its position, the file generation and the time
write(f, bytes, done) ==
    [f EXCEPT !.file = @ \o bytes,
              !.log = IF done = None THEN @
                      ELSE Append(@, [pos |-> Unwrap(done), gen |-> f.gen, at |-> now])]

\* the subprocess writes a whole record and its newline
AppendRecord(role) ==
    /\ fs.rest = <<>>
    /\ fs.nwrites < MaxWrites
    /\ fs' = [write(fs, Record(role, fs.nrec + 1) \o <<NL>>,
                    IF role = "A" THEN Some(Len(fs.file) + 1) ELSE None)
                EXCEPT !.nrec = @ + 1, !.nwrites = @ + 1]
    /\ UNCHANGED <<bus, cl, dg, now, nz, tl, br>>

\* ... or only the first `cut` bytes of an assistant record
WritePartial(cut) ==
    LET rec == Record("A", fs.nrec + 1) \o <<NL>> IN
    /\ fs.rest = <<>>
    /\ fs.nwrites < MaxWrites
    /\ fs' = [write(fs, SubSeq(rec, 1, cut), None)
                EXCEPT !.nrec = @ + 1, !.nwrites = @ + 1,
                       !.rest = SubSeq(rec, cut + 1, Len(rec)),
                       !.parts = @ \cup {Len(fs.file) + 1}]
    /\ UNCHANGED <<bus, cl, dg, now, nz, tl, br>>

\* ... and then the remainder with the newline
WriteRest ==
    /\ fs.rest # <<>>
    /\ fs' = [write(fs, fs.rest, None) EXCEPT !.rest = <<>>]
    /\ UNCHANGED <<bus, cl, dg, now, nz, tl, br>>

\* a diagnostic line
AppendDiag(sym) ==
    /\ fs.rest = <<>>
    /\ fs.nwrites < MaxWrites
    /\ fs' = [write(fs, <<sym, NL>>, None) EXCEPT !.nwrites = @ + 1]
    /\ UNCHANGED <<bus, cl, dg, now, nz, tl, br>>

\* while a call waits, the file at the path is replaced by a new, empty one;
\* the reader's open file stays what it was
Rotate ==
    /\ Waiting
    /\ fs.rest = <<>>
    /\ fs.gen = 0
    /\ tl.current_offset > 0
    /\ fs' = [fs EXCEPT !.file = <<>>, !.gen = @ + 1]
    /\ tl' = [tl EXCEPT !.reader.old = IF tl.reader.gen = fs.gen THEN fs.file ELSE @]
    /\ UNCHANGED <<bus, cl, dg, now, nz, br>>

InitTail ==
    /\ bus = EmptyBus
    /\ cl = InitClients
    /\ dg = <<>>
    /\ now = 0
    /\ nz = <<>>
    /\ fs = NoFile
    /\ tl = IdleTail
    /\ br = <<>>

NextTail ==
    \/ \E t \in TailTimeouts : TailCall(t)
    \/ TailTimeout
    \/ TailPoll
    \/ \E all \in BOOLEAN : TailStat(all)
    \/ TailReturn
    \/ \E role \in Roles : AppendRecord(role)
    \/ \E cut \in Cuts : WritePartial(cut)
    \/ WriteRest
    \/ \E sym \in {McpSym, JunkSym} : AppendDiag(sym)

SpecTail == InitTail /\ [][NextTail]_vars

NextRotate == NextTail \/ Rotate

SpecRotate == InitTail /\ [][NextRotate]_vars

\* a turn whose send_user fails: handle_envelope returns before the wait
\* (bridge.rs:185-188)
TurnWriteFails ==
    /\ tl.pc = "idle"
    /\ tl.calls < MaxCalls
    /\ tl' = [tl EXCEPT !.calls = @ + 1, !.result = [kind |-> "write_failed"]]
    /\ UNCHANGED <<bus, cl, dg, now, nz, fs, br>>

\* SpecTurns: the turns of one session, with inputs that cannot be written
NextTurns == NextTail \/ TurnWriteFails

SpecTurns == InitTail /\ [][NextTurns]_vars

\* where a record that is never completed stops: after the opening brace,
\* inside the text
FragCuts == {1, 3}

\* the subprocess writes the first `cut` bytes of a record and a newline, and
\* never the rest of it
AppendFragment(cut) ==
    /\ fs.rest = <<>>
    /\ fs.nwrites < MaxWrites
    /\ fs' = [write(fs, SubSeq(Record("A", fs.nrec + 1), 1, cut) \o <<NL>>, None)
                EXCEPT !.nrec = @ + 1, !.nwrites = @ + 1]
    /\ UNCHANGED <<bus, cl, dg, now, nz, tl, br>>

\* SpecFrag: the log is written in whole lines only: records, diagnostics
\* and fragments that are never completed
NextFrag ==
    \/ \E t \in TailTimeouts : TailCall(t)
    \/ TailTimeout
    \/ TailPoll
    \/ \E all \in BOOLEAN : TailStat(all)
    \/ TailReturn
    \/ \E role \in Roles : AppendRecord(role)
    \/ \E sym \in {McpSym, JunkSym} : AppendDiag(sym)
    \/ \E cut \in FragCuts : AppendFragment(cut)

SpecFrag == InitTail /\ [][NextFrag]_vars

-----------------------------------------------------------------------------
(* C5, C6, C7 *)

\* C5: a call from offset1 that returns (text, offset2) has offset2 > offset1,
\* and the call made next, from offset2 on the same file, does not return the
\* record the first one returned (the record is told by the file position its
\* text began at).
C5_OffsetMonotonic ==
    (tl.pc = "done" /\ tl.result.kind = "ok")
        => /\ tl.result.offset > tl.start_offset
           /\ (tl.prev # None /\ tl.start_offset = Unwrap(tl.prev).offset)
                 => tl.rec_at # Unwrap(tl.prev).rec_at

\* a second call, started at the offset the first returned, returns a later record
C5_Witness ==
    /\ tl.pc = "done"
    /\ tl.result.kind = "ok"
    /\ tl.prev # None
    /\ tl.start_offset = Unwrap(tl.prev).offset
    /\ tl.start_offset > 0
    /\ tl.rec_at > Unwrap(tl.prev).rec_at

\* the lines handed to the loop cover the file from start_offset on, byte by
\* byte: none skipped, none handed out twice
NoByteSkippedOrDuplicated ==
    \A i \in DOMAIN tl.lines :
        tl.lines[i].from = IF i = 1 THEN tl.start_offset + 1 ELSE tl.lines[i - 1].to + 1

\* the call returned the record that began at rec_at with the text written there
ReturnsFullText ==
    (tl.pc = "done" /\ tl.result.kind = "ok" /\ tl.rec_at \in fs.parts)
        => tl.result.text = SubSeq(fs.file, tl.rec_at + 2, tl.rec_at + 3)

\* C6: when an assistant record reaches the file in two writes, the first
\* ending inside the record, the call that finds it returns its full text, and
\* no byte is skipped or duplicated where the file is reopened at the
\* cumulative offset.
C6_PartialWrites == ReturnsFullText /\ NoByteSkippedOrDuplicated

\* C7: when the file is replaced by a new, shorter one while a call waits, an
\* assistant record appended whole to the new file before the call's deadline
\* is returned: the call does not end with the timeout error.
C7_RotationTolerated ==
    (tl.pc = "done" /\ tl.result.kind = "timeout")
        => ~\E i \in DOMAIN fs.log :
                /\ fs.log[i].gen > tl.gen0
                /\ fs.log[i].at < tl.start_time + tl.timeout_ms

-----------------------------------------------------------------------------
(* SpecBridge: Bridge::run and handle_envelope (ag1goose-bridge/src/        *)
(* bridge.rs:66-249) with one client, one reply address and so one session. *)
(* The bridge reads cfg.inbox (the stream "out" of the delegation above)    *)
(* and publishes to the envelope's reply_to (the stream "in").              *)

inbox == out_stream

\* session.wait_assistant_jsonl(30000, start_offset) (bridge.rs:192)
reply_timeout_ms == 30000

\* bound: envelopes the client sends
MaxTurns == 2

\* the client's k-th envelope: its text and its correlation id
TurnText(k) == "q" \o NatToString(k)
TurnCid(k) == "turn-" \o NatToString(k)
TurnOf(text) == CHOOSE k \in 1..MaxTurns : TurnText(k) = text

ClientEnvelope(role, k) ==
    [BlankEnvelope(role, JObj([text |-> JStr(TurnText(k))])) EXCEPT
        !["reply_to"] = Some(in_stream),
        !["envelope_type"] = Some("message"),
        !["session_code"] = Some("s1"),
        !["correlation_id"] = Some(TurnCid(k))]

RECURSIVE TextString(_)
\* the text of a record as a String
TextString(t) == IF t = <<>> THEN "" ELSE Head(t) \o TextString(Tail(t))

\* what the subprocess answers to turn k
AnswerText(k) == TextString(RecordText(k))

get_reply_to_default(env) == "AG1:agent:TestClient:inbox"

\* Bridge::get_reply_to (bridge.rs:111-123)
get_reply_to(env) ==
    IF IsSome(env["reply_to"]) THEN Unwrap(env["reply_to"])
    ELSE "AG1:agent:TestClient:inbox"

\* the anyhow error of wait_assistant_jsonl as text (session.rs:588-591)
tail_error_text(res) ==
    "Timeout waiting for assistant response after " \o NatToString(res.ms) \o "ms"

\* the match on the result of the wait (bridge.rs:192-205)
response_text(res) ==
    IF res.kind = "ok" THEN TextString(res.text)
    ELSE "Error getting response from Goose: " \o tail_error_text(res)

\* the response envelope (bridge.rs:213-240)
response_env(response, sid, reply_to, cid) ==
    [BlankEnvelope("assistant",
                   JObj([text |-> JStr(response), session_id |-> JStr(sid),
                         timestamp |-> JStr(NatToString(now))])) EXCEPT
        !["session_code"] = Some(sid),
        !["agent_name"] = Some("GooseAgent"),
        !["reply_to"] = Some(reply_to),
        !["envelope_type"] = Some("message_reply"),
        !["timestamp"] = Some(NatToString(now)),
        !["meta"] = JObj([x_stream_key |-> JStr(inbox)]),
        !["envelope_id"] = Some("uuid"),
        !["correlation_id"] = Some(cid)]

IdleBridge ==
    [pc |-> "idle", last_id |-> "$", cursor |-> 0, env |-> None,
     \* reply_to_session and sessions: the session of the one reply address
     session |-> None,
     reply_to |-> "", cid |-> "", sent |-> 0]

\* the log the subprocess resumes: empty, or holding an assistant record of
\* an earlier run of the session
OldLogs == {<<>>, Record("A", 0) \o <<NL>>}

\* a client appends its next envelope to the bridge's inbox
ClientSend(role) ==
    /\ br.sent < MaxTurns
    /\ bus' = send(bus, inbox, ClientEnvelope(role, br.sent + 1)).bus
    /\ br' = [br EXCEPT !.sent = @ + 1]
    /\ UNCHANGED <<cl, dg, now, nz, fs, tl>>

\* self.bus.recv_block(&self.cfg.inbox, &last_id, 2000) is issued (bridge.rs:75)
BridgeRecvCall ==
    /\ br.pc = "idle"
    /\ br' = [br EXCEPT !.pc = "blocked", !.cursor = XReadCursor(bus, inbox, br.last_id)]
    /\ UNCHANGED <<bus, cl, dg, now, nz, fs, tl>>

\* ... and answered with an entry (bridge.rs:76-83, 100-105)
BridgeRecvReturn ==
    LET res == recv_block_result(XRead(bus, inbox, br.cursor)) IN
    /\ br.pc = "blocked"
    /\ XRead(bus, inbox, br.cursor) # <<>>
    /\ br' = IF res.kind = "some"
             THEN [br EXCEPT !.pc = "handle", !.env = Some(res.env),
                             !.last_id = IF IsSome(res.env["envelope_id"])
                                         THEN Unwrap(res.env["envelope_id"]) ELSE @]
             ELSE [br EXCEPT !.pc = "idle"]
    /\ UNCHANGED <<bus, cl, dg, now, nz, fs, tl>>

\* ... or with nothing after 2000 ms (bridge.rs:97-99)
BridgeRecvNone ==
    /\ br.pc = "blocked"
    /\ XRead(bus, inbox, br.cursor) = <<>>
    /\ br' = [br EXCEPT !.pc = "idle"]
    /\ UNCHANGED <<bus, cl, dg, now, nz, fs, tl>>

\* handle_envelope up to the wait (bridge.rs:125-192): the role filter, the
\* session of the reply address, the text, send_user, and the start of
\* wait_assistant_jsonl from the session's last_offset
BridgeHandle ==
    LET env == Unwrap(br.env)
        reply_to == get_reply_to(env)
        sid == IF IsSome(br.session) THEN Unwrap(br.session)
               ELSE IF IsSome(env["session_code"]) THEN Unwrap(env["session_code"])
               ELSE "sess_new"
        cid == IF IsSome(env["correlation_id"]) THEN Unwrap(env["correlation_id"])
               ELSE "uuid"
        content == env["content"]
        has_text == content.t = "obj" /\ "text" \in DOMAIN content.f
                    /\ content.f["text"].t = "str"
    IN
    /\ br.pc = "handle"
    /\ IF env["role"] # "user"
       THEN /\ br' = [br EXCEPT !.pc = "idle", !.env = None]
            /\ UNCHANGED <<fs, tl>>
       ELSE IF ~has_text
       THEN /\ br' = [br EXCEPT !.pc = "idle", !.env = None, !.session = Some(sid)]
            /\ UNCHANGED <<fs, tl>>
       ELSE /\ br' = [br EXCEPT !.pc = "wait", !.env = None, !.session = Some(sid),
                                !.reply_to = reply_to, !.cid = cid]
            /\ fs' = [fs EXCEPT !.inputs = @ \cup {TurnOf(content.f["text"].s)}]
            /\ tl' = begin_wait(tl, reply_timeout_ms, tl.last_offset)
    /\ UNCHANGED <<bus, cl, dg, now, nz>>

\* the wait is over: the offset is stored on Ok, and the response envelope is
\* sent to the reply address (bridge.rs:193-248)
BridgePublish ==
    /\ br.pc = "wait"
    /\ tl.pc = "done"
    /\ tl' = IF tl.result.kind = "ok"
             THEN [tl EXCEPT !.pc = "idle",
                             !.last_offset = stored_offset(@, tl.result),
                             !.prev = Some([offset |-> tl.result.offset, rec_at |-> tl.rec_at])]
             ELSE [tl EXCEPT !.pc = "idle", !.last_offset = stored_offset(@, tl.result)]
    /\ bus' = send(bus, br.reply_to,
                   response_env(response_text(tl.result), Unwrap(br.session),
                                br.reply_to, br.cid)).bus
    /\ br' = [br EXCEPT !.pc = "idle"]
    /\ UNCHANGED <<cl, dg, now, nz, fs>>

\* the subprocess appends a record for a turn whose input it has read
GooseWrite(role, k) ==
    /\ k \in fs.inputs
    /\ fs.nwrites < MaxWrites
    /\ fs' = [write(fs, Record(role, k) \o <<NL>>,
                    IF role = "A" THEN Some(Len(fs.file) + 1) ELSE None)
                EXCEPT !.nrec = @ + 1, !.nwrites = @ + 1]
    /\ UNCHANGED <<bus, cl, dg, now, nz, tl, br>>

InitBridge ==
    /\ bus = EmptyBus
    /\ cl = InitClients
    /\ dg = <<>>
    /\ now = 0
    /\ nz = <<>>
    /\ fs \in {[NoFile EXCEPT !.file = f] : f \in OldLogs}
    /\ tl = IdleTail
    /\ br = IdleBridge

NextBridge ==
    \/ \E role \in {"user", "system"} : ClientSend(role)
    \/ BridgeRecvCall
    \/ BridgeRecvReturn
    \/ BridgeRecvNone
    \/ BridgeHandle
    \/ TailTimeout
    \/ TailPoll
    \/ \E all \in BOOLEAN : TailStat(all)
    \/ BridgePublish
    \/ \E role \in Roles, k \in 1..MaxTurns : GooseWrite(role, k)

SpecBridge == InitBridge /\ [][NextBridge]_vars

-----------------------------------------------------------------------------
(* C4 *)

\* C4: the text the bridge publishes in reply to the client's k-th envelope is
\* the text of a record the subprocess wrote for turn k (or the error text of
\* a wait that failed) - never a record that was in the log before the first
\* turn, nor one written for an earlier turn.
C4_TurnIsolation ==
    \A i \in DOMAIN bus.streams[in_stream] :
        \A k \in 1..MaxTurns :
            InboxEnvelope(i)["correlation_id"] = Some(TurnCid(k))
                => InboxEnvelope(i)["content"].f["text"]
                      \in {JStr(AnswerText(k)),
                           JStr(response_text(TailTimeoutError(reply_timeout_ms)))}

-----------------------------------------------------------------------------
(* C11 *)

\* C11: whatever content the caller passes (null, boolean, number, string,
\* array, object with or without a text key), the content create_envelope
\* puts in its envelope and the content delegate_with_opts puts in the
\* request is an object with a text key.
C11_ContentHasText ==
    nz.stage \in {"created", "delegated"}
        => /\ nz.value.t = "obj"
           /\ "text" \in DOMAIN nz.value.f

\* an object that came without a text key has been through delegate_with_opts
C11_Witness ==
    /\ nz.stage = "delegated"
    /\ nz.in = JObj([other |-> JStr("x")])
    /\ nz.value = JObj([other |-> JStr("x"), text |-> JStr("")])

-----------------------------------------------------------------------------
(* C12 *)

\* C12: create_consumer_group on a stream and group that an earlier call
\* already created succeeds, and changes neither the entries of the stream
\* nor the group's cursor or pending entries; the first call succeeds too.
C12_EnsureGroupIdempotent ==
    cl.cg.calls > 0
        => /\ cl.cg.result = OkNone
           /\ cl.cg.busy => ~cl.cg.changed

\* the second call finds a group that has delivered an entry still pending
C12_Witness ==
    /\ cl.cg.calls = 2
    /\ cl.cg.busy
    /\ bus.groups[<<BusStream, Group>>].last > 0
    /\ bus.groups[<<BusStream, Group>>].pel # {}
-----------------------------------------------------------------------------
(* SpecLoop: Bridge::run and handle_envelope (bridge.rs:41-262) with two    *)
(* reply addresses, envelopes that lack fields, and parts that fail. The    *)
(* session is what the loop sees of it: whether GooseSession::start         *)
(* succeeded, the inputs written to it, its stored offset and the result    *)
(* of wait_assistant_jsonl (modelled in SpecTail).                          *)

\* bound: envelopes the clients send to the bridge's inbox
MaxInbound == 2

\* bound: recv_block errors in a row
MaxErrors == 2

\* tokio::time::sleep(Duration::from_millis(100)) after a failed read
retry_delay_ms == 100

\* the envelopes clients send: with every field, with the session code of
\* another reply address, with another session code for the same address,
\* with no reply_to, session_code or correlation_id, with a role other than
\* user, and with a content that has no text
InboundKinds == {"plain", "same_code", "new_code", "bare", "system", "no_text"}

Inbound(kind, k) ==
    LET e == ClientEnvelope("user", k) IN
    CASE kind = "plain"     -> e
      [] kind = "same_code" -> [e EXCEPT !["reply_to"] = Some("in2")]
      [] kind = "new_code"  -> [e EXCEPT !["session_code"] = Some("s2")]
      [] kind = "bare"      -> [e EXCEPT !["reply_to"] = None, !["session_code"] = None,
                                         !["correlation_id"] = None]
      [] kind = "system"    -> [e EXCEPT !["role"] = "system"]
      [] kind = "no_text"   -> [e EXCEPT !["content"] = JStr(TurnText(k))]

\* the role filter of handle_envelope (bridge.rs:129)
is_user_any(env) == TRUE

is_user(env) == env["role"] = "user"

\* Bridge::run calls recv_block only at the top of its loop, after
\* handle_envelope(env).await has returned (bridge.rs:73-96)
loop_reads_while_handling(pc) == pc \in {"read", "wait"}

loop_reads(pc) == pc = "read"

\* a lookup that never finds a binding
get_session_for_reply_to_none(map, reply_to) == None

\* get_session_for_reply_to (bridge.rs:252-255)
get_session_for_reply_to(map, reply_to) ==
    IF reply_to \in DOMAIN map THEN Some(map[reply_to]) ELSE None

\* map_reply_to_session (bridge.rs:258-262)
map_reply_to_session(map, reply_to, sid) ==
    [a \in DOMAIN map \cup {reply_to} |-> IF a = reply_to THEN sid ELSE map[a]]

\* the session id of a turn (bridge.rs:138-152): [sid, map]
session_id_for(map, env, reply_to, k) ==
    LET known == get_session_for_reply_to(map, reply_to) IN
    IF IsSome(known) THEN [sid |-> Unwrap(known), map |-> map]
    ELSE LET sid == IF IsSome(env["session_code"]) THEN Unwrap(env["session_code"])
                    ELSE "sess_" \o NatToString(k)
         IN  [sid |-> sid, map |-> map_reply_to_session(map, reply_to, sid)]

\* let cid = env.correlation_id.clone().unwrap_or_else(new uuid) (bridge.rs:158-162)
correlation_id_for(env, k) ==
    IF IsSome(env["correlation_id"]) THEN Unwrap(env["correlation_id"])
    ELSE "uuid-" \o NatToString(k)

\* env.content.get("text").and_then(as_str) (bridge.rs:165-167)
message_text(env) ==
    LET content == env["content"] IN
    IF content.t = "obj" /\ "text" \in DOMAIN content.f /\ content.f["text"].t = "str"
    THEN Some(content.f["text"].s) ELSE None

\* a GooseSession as handle_envelope uses it (session.rs:315: last_offset 0)
NewSession == [last_offset |-> 0, inputs |-> <<>>]

\* sessions.insert(sid, sess) (bridge.rs:51)
insert_session(sessions, sid) ==
    [x \in DOMAIN sessions \cup {sid} |-> IF x \in DOMAIN sessions THEN sessions[x] ELSE NewSession]

IdleLoop ==
    [pc |-> "read", last_id |-> "$", cursor |-> 0, env |-> None,
     reply_to_session |-> <<>>, sessions |-> <<>>,
     \* the turn in hand: its entry in the inbox, sid, reply_to and cid
     k |-> 0, sid |-> "", reply_to |-> "", cid |-> "",
     \* the read that came back last, the errors in a row and the sleep
     last_read |-> "", errs |-> 0, delay |-> 0,
     \* what happened, in order: [ev, k] with ev read, write, publish or return,
     \* and the replies published: [k, stream, idx, sid]
     hist |-> <<>>, replies |-> <<>>, sent |-> 0,
     \* the inbox entries whose read failed to parse, one element per
     \* failed read (the history stops at two failures of one entry)
     bad |-> <<>>,
     \* whether the guard of self.sessions.lock() is alive
     sessions_locked |-> FALSE,
     \* SpecReady: the sessions whose is_ready has been notified
     ready |-> {},
     \* the failure since the last read was issued: spawn, write, timeout,
     \* publish or read
     failure |-> ""]

\* were the Err arms of run to propagate the error (`?`), run would return
on_error_return(pc) == "returned"

\* where run goes on after an error: both Err arms only log, and the arm of
\* recv_block sleeps (bridge.rs:91-94, 100-105)
on_error(pc) == pc

Ev(ev, k) == [ev |-> ev, k |-> k]

\* a client appends an envelope to the bridge's inbox
LoopClientSend(kind) ==
    /\ br.sent < MaxInbound
    /\ bus' = send(bus, inbox, Inbound(kind, br.sent + 1)).bus
    /\ br' = [br EXCEPT !.sent = @ + 1]
    /\ UNCHANGED <<cl, dg, now, nz, fs, tl>>

\* some other producer appends an entry whose payload is not an envelope
LoopForeignAdd ==
    /\ br.sent < MaxInbound
    /\ bus' = XAdd(bus, inbox, [data |-> NotJson]).bus
    /\ br' = [br EXCEPT !.sent = @ + 1]
    /\ UNCHANGED <<cl, dg, now, nz, fs, tl>>

\* self.bus.recv_block(&self.cfg.inbox, &last_id, 2000) is issued (bridge.rs:75)
LoopRecvCall ==
    /\ loop_reads(br.pc)
    /\ br' = [br EXCEPT !.pc = "blocked", !.failure = "",
                        !.cursor = XReadCursor(bus, inbox, br.last_id)]
    /\ UNCHANGED <<bus, cl, dg, now, nz, fs, tl>>

\* Ok(Some(env)): last_id moves and handle_envelope(env) is called (bridge.rs:76-86)
LoopRecvReturn ==
    LET res == recv_block_result(XRead(bus, inbox, br.cursor)) IN
    /\ br.pc = "blocked"
    /\ res.kind = "some"
    /\ br' = [br EXCEPT !.pc = "handle", !.env = Some(res.env),
                        !.k = br.cursor + 1,
                        !.last_id = IF IsSome(res.env["envelope_id"])
                                    THEN Unwrap(res.env["envelope_id"]) ELSE @,
                        !.last_read = "some", !.errs = 0,
                        !.hist = Append(@, Ev("read", br.cursor + 1))]
    /\ UNCHANGED <<bus, cl, dg, now, nz, fs, tl>>

\* Ok(None) after 2000 ms: the loop goes round (bridge.rs:97-99)
LoopRecvNone ==
    /\ br.pc = "blocked"
    /\ XRead(bus, inbox, br.cursor) = <<>>
    /\ br' = [br EXCEPT !.pc = "read", !.last_read = "none", !.errs = 0]
    /\ UNCHANGED <<bus, cl, dg, now, nz, fs, tl>>

\* Err(e): the connection failed; the loop logs and sleeps (bridge.rs:100-105)
LoopRecvError ==
    /\ br.pc = "blocked"
    /\ br.errs < MaxErrors
    /\ br' = [br EXCEPT !.pc = on_error("sleep"), !.failure = "read",
                        !.last_read = "err", !.errs = @ + 1,
                        !.delay = retry_delay_ms]
    /\ UNCHANGED <<bus, cl, dg, now, nz, fs, tl>>

\* Err(BusError::Json): the first entry after the cursor does not parse
\* (lib.rs:160); the same arm of the loop, and last_id stays (bridge.rs:100-105)
LoopRecvBadEntry ==
    LET res == recv_block_result(XRead(bus, inbox, br.cursor))
        k == br.cursor + 1
        seen == Cardinality({i \in DOMAIN br.bad : br.bad[i] = k})
    IN
    /\ br.pc = "blocked"
    /\ res.kind = "err"
    /\ br' = [br EXCEPT !.pc = on_error("sleep"), !.failure = "read",
                        !.last_read = "err",
                        !.errs = Min(@ + 1, MaxErrors),
                        !.delay = retry_delay_ms,
                        !.bad = IF seen < 2 THEN Append(@, k) ELSE @]
    /\ UNCHANGED <<bus, cl, dg, now, nz, fs, tl>>

\* the sleep is over
LoopWake ==
    /\ br.pc = "sleep"
    /\ br' = [br EXCEPT !.pc = "read"]
    /\ UNCHANGED <<bus, cl, dg, now, nz, fs, tl>>

\* handle_envelope up to the wait (bridge.rs:125-192). start_ok: whether
\* GooseSession::start succeeds if it is called; write_ok: whether send_user does
LoopHandle(start_ok, write_ok) ==
    LET env == Unwrap(br.env)
        reply_to == get_reply_to(env)
        s == session_id_for(br.reply_to_session, env, reply_to, br.k)
        started == s.sid \in DOMAIN br.sessions \/ start_ok
        sessions == IF s.sid \in DOMAIN br.sessions THEN br.sessions
                    ELSE insert_session(br.sessions, s.sid)
        message == message_text(env)
        returned == [br EXCEPT !.pc = "read", !.env = None,
                               !.hist = Append(@, Ev("return", br.k))]
    IN
    /\ br.pc = "handle"
    /\ br' = IF ~is_user(env) THEN returned
             ELSE IF ~started
             THEN [returned EXCEPT !.pc = on_error("read"), !.failure = "spawn",
                                   !.reply_to_session = s.map]
             ELSE IF ~IsSome(message)
             THEN [returned EXCEPT !.reply_to_session = s.map, !.sessions = sessions]
             ELSE IF ~write_ok
             THEN [returned EXCEPT !.pc = on_error("read"), !.failure = "write",
                                   !.reply_to_session = s.map, !.sessions = sessions]
             ELSE [br EXCEPT !.pc = "wait", !.env = None,
                             !.reply_to_session = s.map,
                             !.sessions = [sessions EXCEPT ![s.sid].inputs =
                                              Append(@, Unwrap(message))],
                             \* let mut sessions = self.sessions.lock().await,
                             \* alive to the end of the block (bridge.rs:173-206)
                             !.sessions_locked = TRUE,
                             !.sid = s.sid, !.reply_to = reply_to,
                             !.cid = correlation_id_for(env, br.k),
                             !.hist = Append(@, Ev("write", br.k))]
    /\ UNCHANGED <<bus, cl, dg, now, nz, fs, tl>>

\* the rest of handle_envelope (bridge.rs:192-248). wait_ok: whether
\* wait_assistant_jsonl returned a text; send_ok: whether bus.send succeeds
LoopPublish(wait_ok, send_ok) ==
    LET sess == br.sessions[br.sid]
        res == IF wait_ok THEN OkReply(RecordText(br.k), sess.last_offset + 1)
               ELSE TailTimeoutError(reply_timeout_ms)
        reply == response_env(response_text(res), br.sid, br.reply_to, br.cid)
        published == [k |-> br.k, stream |-> br.reply_to,
                      idx |-> Len(bus.streams[br.reply_to]) + 1, sid |-> br.sid]
    IN
    /\ br.pc = "wait"
    /\ bus' = IF send_ok THEN send(bus, br.reply_to, reply).bus ELSE bus
    /\ br' = [br EXCEPT !.pc = IF send_ok THEN "read" ELSE on_error("read"),
                        !.failure = IF ~send_ok THEN "publish"
                                    ELSE IF ~wait_ok THEN "timeout" ELSE "",
                        !.sessions_locked = FALSE,
                        !.sessions[br.sid].last_offset = IF wait_ok THEN res.offset ELSE @,
                        !.replies = IF send_ok THEN Append(@, published) ELSE @,
                        !.hist = IF send_ok
                                 THEN @ \o <<Ev("publish", br.k), Ev("return", br.k)>>
                                 ELSE Append(@, Ev("return", br.k))]
    /\ UNCHANGED <<cl, dg, now, nz, fs, tl>>

InitLoop ==
    /\ bus = EmptyBus
    /\ cl = <<>>
    /\ dg = <<>>
    /\ now = 0
    /\ nz = <<>>
    /\ fs = <<>>
    /\ tl = <<>>
    /\ br = IdleLoop

NextLoop ==
    \/ \E kind \in InboundKinds : LoopClientSend(kind)
    \/ LoopForeignAdd
    \/ LoopRecvCall
    \/ LoopRecvReturn
    \/ LoopRecvNone
    \/ LoopRecvError
    \/ LoopRecvBadEntry
    \/ LoopWake
    \/ \E start_ok \in BOOLEAN, write_ok \in BOOLEAN : LoopHandle(start_ok, write_ok)
    \/ \E wait_ok \in BOOLEAN, send_ok \in BOOLEAN : LoopPublish(wait_ok, send_ok)

SpecLoop == InitLoop /\ [][NextLoop]_vars

\* the session ids handle_envelope can come to: the session codes of the
\* envelopes and the generated ones
SessionIds == {"s1", "s2"} \cup {"sess_" \o NatToString(k) : k \in 1..MaxInbound}

\* the stdout task of a started session reads the readiness line of the
\* subprocess and calls ready_notifier.notify_one() (session.rs:271-293)
SessionNotifies(sid) ==
    /\ sid \in DOMAIN br.sessions
    /\ sid \notin br.ready
    /\ br' = [br EXCEPT !.ready = @ \cup {sid}]
    /\ UNCHANGED <<bus, cl, dg, now, nz, fs, tl>>

\* SpecReady: SpecLoop together with the readiness notifications, which
\* nothing in Bridge waits for (wait_ready, session.rs:345-352, has no caller)
NextReady ==
    \/ NextLoop
    \/ \E sid \in SessionIds : SessionNotifies(sid)

SpecReady == InitLoop /\ [][NextReady]_vars

\* the envelope stored as entry i of stream s
EnvelopeAt(s, i) == EnvFromJson(bus.streams[s][i].fields["data"]).env

-----------------------------------------------------------------------------
(* C13 *)

\* the inbound envelope a published reply answers, and the reply as stored
InboundOf(r) == EnvelopeAt(inbox, r.k)
ReplyOf(r) == EnvelopeAt(r.stream, r.idx)

\* C13 as stated: every reply the bridge publishes has role assistant, the
\* correlation_id of the inbound envelope, a reply_to equal to the inbound
\* reply_to, and is appended to the stream the inbound reply_to names.
C13_ReplyEchoesInbound ==
    \A i \in DOMAIN br.replies :
        LET r == br.replies[i] IN
        /\ ReplyOf(r)["role"] = "assistant"
        /\ ReplyOf(r)["correlation_id"] = InboundOf(r)["correlation_id"]
        /\ ReplyOf(r)["reply_to"] = InboundOf(r)["reply_to"]
        /\ InboundOf(r)["reply_to"] = Some(r.stream)

\* C13: every reply the bridge publishes has role assistant and names as
\* reply_to the stream it is appended to. That stream is the one the inbound
\* reply_to names, or AG1:agent:TestClient:inbox when the inbound envelope
\* has none; the correlation_id is the inbound one, or a generated one when
\* the inbound envelope has none.
C13_ReplyEchoesOrDefaults ==
    \A i \in DOMAIN br.replies :
        LET r == br.replies[i] IN
        /\ ReplyOf(r)["role"] = "assistant"
        /\ ReplyOf(r)["reply_to"] = Some(r.stream)
        /\ IF IsSome(InboundOf(r)["reply_to"])
           THEN InboundOf(r)["reply_to"] = Some(r.stream)
           ELSE r.stream = "AG1:agent:TestClient:inbox"
        /\ IF IsSome(InboundOf(r)["correlation_id"])
           THEN ReplyOf(r)["correlation_id"] = InboundOf(r)["correlation_id"]
           ELSE ReplyOf(r)["correlation_id"] = Some("uuid-" \o NatToString(r.k))

\* two replies are out: one to an envelope that named its reply address and
\* correlation id, one to an envelope that named neither
C13_Witness ==
    /\ \E i \in DOMAIN br.replies :
            /\ IsSome(InboundOf(br.replies[i])["reply_to"])
            /\ IsSome(InboundOf(br.replies[i])["correlation_id"])
    /\ \E i \in DOMAIN br.replies :
            /\ ~IsSome(InboundOf(br.replies[i])["reply_to"])
            /\ ~IsSome(InboundOf(br.replies[i])["correlation_id"])
-----------------------------------------------------------------------------
(* C14 *)

\* handle_envelope has returned for entry k of the inbox
Returned(k) == \E i \in DOMAIN br.hist : br.hist[i] = Ev("return", k)

\* C14: once handle_envelope has returned for a user envelope the loop
\* received, exactly one reply to it has been published on its reply
\* address - also when the session could not be started, the input could not
\* be written, or the wait timed out.
C14_ExactlyOneReply ==
    \A k \in 1..Len(bus.streams[inbox]) :
        (Returned(k) /\ EnvelopeAt(inbox, k)["role"] = "user")
            => /\ Cardinality({i \in DOMAIN br.replies : br.replies[i].k = k}) = 1
               /\ \A i \in DOMAIN br.replies :
                      br.replies[i].k = k
                          => br.replies[i].stream = get_reply_to(EnvelopeAt(inbox, k))
-----------------------------------------------------------------------------
(* C15 *)

\* handle_envelope returns for an envelope whose role is not user
SkipsNonUser ==
    /\ br.pc = "handle"
    /\ br'.pc # "handle"
    /\ Unwrap(br.env)["role"] # "user"

\* recv_block returns Ok(None)
ReadTimesOut ==
    /\ br.pc = "blocked"
    /\ br'.pc = "read"
    /\ br'.last_read = "none"

\* C15: handling a non-user envelope, and a read that times out with no
\* entry, create no session, bind no reply address, write no input, change
\* no stored offset and publish nothing; the loop is back at its next read.
C15_SkipChangesNothing ==
    [][(SkipsNonUser \/ ReadTimesOut)
          => /\ br'.sessions = br.sessions
             /\ br'.reply_to_session = br.reply_to_session
             /\ br'.replies = br.replies
             /\ bus' = bus
             /\ \A i \in DOMAIN br'.hist : br'.hist[i].ev \in {"write", "publish"}
                                               => i \in DOMAIN br.hist
             /\ br'.pc = "read"]_vars

\* a non-user envelope was handled after a user turn left a session and a
\* reply behind, and the read after it timed out
C15_Witness ==
    /\ \E k \in 1..Len(bus.streams[inbox]) :
            Returned(k) /\ EnvelopeAt(inbox, k)["role"] = "system"
    /\ br.last_read = "none"
    /\ br.pc = "read"
    /\ br.replies # <<>>
-----------------------------------------------------------------------------
(* C16 *)

\* C16: turns are handled one after the other: nothing happens for an
\* envelope (its read, the write of its input, its reply) before
\* handle_envelope has returned for every envelope read before it, and the
\* replies are published in the order the envelopes were read.
C16_TurnsSequential ==
    /\ \A i, j \in DOMAIN br.hist :
           (i < j /\ br.hist[i].k # br.hist[j].k)
               => /\ br.hist[i].k < br.hist[j].k
                  /\ \E m \in i..(j - 1) : br.hist[m] = Ev("return", br.hist[i].k)
    /\ \A i, j \in DOMAIN br.replies :
           i < j => br.replies[i].k < br.replies[j].k

\* two turns of one session were answered, the second envelope having
\* arrived while the first was waiting for its answer
C16_Witness ==
    /\ Len(br.replies) = 2
    /\ br.replies[1].sid = br.replies[2].sid
    /\ br.replies[1].stream = br.replies[2].stream
    /\ \E i \in DOMAIN br.hist : br.hist[i] = Ev("write", 2)
-----------------------------------------------------------------------------
(* C17 *)

\* C17: the turns of one reply address all use the same session, and two
\* different reply addresses are never bound to the same session, whatever
\* session_code the envelopes carry.
C17_OneSessionPerAddress ==
    /\ \A i, j \in DOMAIN br.replies :
           br.replies[i].stream = br.replies[j].stream
               => br.replies[i].sid = br.replies[j].sid
    /\ \A a, b \in DOMAIN br.reply_to_session :
           a # b => br.reply_to_session[a] # br.reply_to_session[b]
-----------------------------------------------------------------------------
(* SpecFault: delegate_to_name_with_opts (ag1_meta/src/lib.rs:65-82) over    *)
(* the registry, and delegate_with_opts on a transport whose operations may *)
(* fail with BusError::Redis.                                               *)

\* the names in the registry file, and the names a caller asks for
AgentNames == {"goose"}
TargetNames == {"goose", "nobody"}

\* a registry that knows every name
registry_get_any(name) == Some([name |-> name, inbox |-> out_stream])

\* Registry::get (registry.rs:68-70)
registry_get(name) ==
    IF name \in AgentNames THEN Some([name |-> name, inbox |-> out_stream]) ELSE None

\* anyhow!("unknown agent: {target_name}") (lib.rs:75-76)
unknown_agent_error(name) == Err("unknown agent: " \o name)

\* a caller enters delegate_to_name_with_opts (lib.rs:65-82)
DelegateToName(d, target, t) ==
    /\ dg[d].pc = "idle"
    /\ dg' = IF IsSome(registry_get(target))
             THEN [dg EXCEPT ![d].pc = "group", ![d].timeout_ms = t, ![d].target = target]
             ELSE [dg EXCEPT ![d].pc = "done", ![d].target = target, ![d].ended = now,
                             ![d].result = unknown_agent_error(target)]
    /\ UNCHANGED <<fs, tl, br, bus, cl, now, nz>>

\* bus.create_consumer_group fails: the error is printed and the call goes on
\* (lib.rs:132-134)
DelegateEnsureGroupFails(d) ==
    /\ dg[d].pc = "group"
    /\ dg' = [dg EXCEPT ![d].pc = "send",
                        ![d].failed = IF @ = "" THEN "group" ELSE @]
    /\ UNCHANGED <<fs, tl, br, bus, cl, now, nz>>

\* bus.send fails: delegate returns the error (lib.rs:197-203)
DelegateSendFails(d) ==
    /\ dg[d].pc = "send"
    /\ dg' = [dg EXCEPT ![d].pc = "done", ![d].ended = now,
                        ![d].result = Err("redis"),
                        ![d].failed = IF @ = "" THEN "send" ELSE @]
    /\ UNCHANGED <<fs, tl, br, bus, cl, now, nz>>

\* bus.recv_block_group fails, as it also does when the group does not
\* exist: delegate returns the error (lib.rs:215-218)
DelegateRecvFails(d) ==
    /\ dg[d].pc = "read"
    /\ dg' = [dg EXCEPT ![d].pc = "done", ![d].ended = now,
                        ![d].result = Err("redis"),
                        ![d].failed = IF @ = "" THEN "read" ELSE @]
    /\ UNCHANGED <<fs, tl, br, bus, cl, now, nz>>

\* bus.ack_message(..).await? - a call that would return the error of the ack
ack_error_propagated(r) == r

\* let _ = bus.ack_message(in_stream, group, id).await (lib.rs:221, 225)
ack_error_dropped(r) == OkNone

\* bus.ack_message fails: nothing is acknowledged, and the claimed reply is
\* returned or dropped as after a successful ack (lib.rs:219-226)
DelegateAckFails(d) ==
    LET reply == Unwrap(dg[d].reply)
        acked == ack_error_dropped(Err("redis"))
    IN
    /\ dg[d].pc = "ack"
    /\ IsSome(reply["envelope_id"])
    /\ dg' = IF acked.kind = "err"
             THEN [dg EXCEPT ![d].reply = None, ![d].unacked = Some(reply),
                             ![d].ended = now, ![d].pc = "done", ![d].result = acked]
             ELSE [dg EXCEPT
                     ![d].reply = None,
                     ![d].unacked = Some(reply),
                     ![d].ended = IF reply_matches(reply, CidOf(d)) THEN now ELSE @,
                     ![d].pc = IF reply_matches(reply, CidOf(d)) THEN "done" ELSE "loop",
                     ![d].result = IF reply_matches(reply, CidOf(d)) THEN OkSome(reply) ELSE @]
    /\ UNCHANGED <<fs, tl, br, bus, cl, now, nz>>

NextFault ==
    \/ \E d \in Callers, target \in TargetNames, t \in Timeouts : DelegateToName(d, target, t)
    \/ \E d \in Callers : DelegateEnsureGroup(d)
    \/ \E d \in Callers : DelegateEnsureGroupFails(d)
    \/ \E d \in Callers : DelegateSend(d)
    \/ \E d \in Callers : DelegateSendFails(d)
    \/ \E d \in Callers : DelegateLoop(d)
    \/ \E d \in Callers : DelegateRecv(d)
    \/ \E d \in Callers : DelegateRecvFails(d)
    \/ \E d \in Callers : DelegateRecvNone(d)
    \/ \E d \in Callers : DelegateAck(d)
    \/ \E d \in Callers : DelegateAckFails(d)
    \/ \E d \in Callers : AgentReply(d)
    \/ \E c \in UnrelatedCids : UnrelatedArrives(c)
    \/ Tick

SpecFault == Init /\ [][NextFault]_vars

\* the requests call d has appended to the target's inbox
RequestsOf(d) ==
    {i \in DOMAIN bus.streams[out_stream] :
        EnvelopeAt(out_stream, i)["correlation_id"] = Some(CidOf(d))}

-----------------------------------------------------------------------------
(* C18 *)

\* C18: a call that names an agent the registry does not know has failed
\* with the unknown-agent error at once, and has done nothing on the
\* transport: the consumer group is not created and no request is appended.
C18_UnknownAgentFailsFast ==
    \A d \in Callers :
        (dg[d].target # "" /\ dg[d].target \notin AgentNames)
            => /\ dg[d].pc = "done"
               /\ dg[d].result = Err("unknown agent: " \o dg[d].target)
               /\ dg[d].failed = ""
               /\ ~bus.groups[<<in_stream, Group>>].exists
               /\ RequestsOf(d) = {}
               /\ bus.streams[out_stream] = <<>>

\* the call for an unknown name is over while other traffic has reached the
\* reply inbox
C18_Witness ==
    /\ dg["d1"].target = "nobody"
    /\ dg["d1"].pc = "done"
    /\ bus.streams[in_stream] # <<>>

-----------------------------------------------------------------------------
(* C19 *)

\* C19: once a transport operation of a call has failed (the group creation,
\* the append of the request, a group read), the call has failed with that
\* error and did nothing more on the transport; after a failed group
\* creation no request was appended.
C19_TransportErrorFailsFast ==
    \A d \in Callers :
        dg[d].failed # ""
            => /\ dg[d].pc = "done" => dg[d].result = Err("redis")
               /\ dg[d].failed = "group"
                     => /\ dg[d].pc \notin {"loop", "read", "ack"}
                        /\ RequestsOf(d) = {}
                        /\ dg[d].claimed = {}
-----------------------------------------------------------------------------
(* C20 *)

\* C20: the sleep after a failed read of the inbox is 1 s after the first
\* failure and doubles with every further failure in a row, up to 30 s; a
\* successful read brings it back to 1 s.
C20_ExponentialBackoff ==
    br.pc = "sleep" => br.delay = Min(1000 * 2 ^ (br.errs - 1), 30000)
-----------------------------------------------------------------------------
(* C21 *)

\* C21: an inbox entry whose payload is not an envelope makes a read fail
\* once: the loop does not read that entry again.
C21_MalformedReadOnce ==
    \A i, j \in DOMAIN br.bad : i # j => br.bad[i] # br.bad[j]
-----------------------------------------------------------------------------
(* C22 *)

\* C22: a failed ack never fails the call. If the reply whose ack failed
\* carries the call's correlation id, the call has returned it; if not, the
\* call is still polling or has ended with a matching reply or the timeout
\* error - an error result only ever comes from another operation.
C22_AckFailureNotPropagated ==
    \A d \in Callers :
        IsSome(dg[d].unacked)
            => /\ dg[d].result.kind = "err" => dg[d].failed # ""
               /\ IF reply_matches(Unwrap(dg[d].unacked), CidOf(d))
                  THEN /\ dg[d].pc = "done"
                       /\ dg[d].result = OkSome(Unwrap(dg[d].unacked))
                  ELSE \/ dg[d].pc \in {"loop", "read", "ack"}
                       \/ /\ dg[d].pc = "done"
                          /\ \/ /\ dg[d].result.kind = "some"
                                /\ reply_matches(dg[d].result.env, CidOf(d))
                             \/ dg[d].result = timeout_error(dg[d].timeout_ms, CidOf(d))
                             \/ dg[d].failed # ""

\* the ack of an unrelated reply failed, the entry is still pending, and the
\* call went on to return its own reply
C22_Witness ==
    /\ IsSome(dg["d1"].unacked)
    /\ ~reply_matches(Unwrap(dg["d1"].unacked), CidOf("d1"))
    /\ dg["d1"].pc = "done"
    /\ dg["d1"].result.kind = "some"
    /\ \E p \in bus.groups[<<in_stream, Group>>].pel :
           Some(StreamId(p.id)) = Unwrap(dg["d1"].unacked)["envelope_id"]

\* the ack of the call's own reply failed and the reply was returned
C22_WitnessMatch ==
    /\ IsSome(dg["d1"].unacked)
    /\ reply_matches(Unwrap(dg["d1"].unacked), CidOf("d1"))
-----------------------------------------------------------------------------
(* SpecWait: the control flow of GooseSession::wait_assistant_jsonl         *)
(* (session.rs:356-592) on a file system that may fail: the file may be     *)
(* missing, fail to open, to seek or to stat, and reads may fail. The file  *)
(* is counted in lines (SpecTail has it byte by byte); the clock is `now`.  *)

\* const MAX_CONSECUTIVE_ERRORS: u32 = 5 (session.rs:366)
MAX_CONSECUTIVE_ERRORS == 5

\* tokio::time::sleep(Duration::from_millis(100)) (session.rs:381, 527, 540, 563, 576)
error_sleep_ms == 100

\* bounds: the lines the file ever holds, and the time after which no sleep starts
MaxLines == 2
MaxWaitTime == 500

\* the timeout_ms a caller passes
WaitTimeouts == {0, 400}

\* the lines of the log: an assistant record with a text, or anything else
LineKinds == {"assistant", "other"}

\* the errors of the call besides TailTimeoutError: the file did not appear
\* in time (session.rs:379), and the failures that end the call at once
\* (session.rs:394, 406, 523)
AppearTimeoutError == [kind |-> "timeout", what |-> "appear"]
HardError(what) == [kind |-> "hard", what |-> what]

\* a loop head that never gives up
wait_expired_never(elapsed, timeout_ms) == FALSE

\* start_time.elapsed() > timeout_duration (session.rs:378, 419)
wait_expired(elapsed, timeout_ms) == elapsed > timeout_ms

\* a threshold that is never reached
too_many_errors_never(n) == FALSE

\* consecutive_errors >= MAX_CONSECUTIVE_ERRORS (session.rs:522)
too_many_errors(n) == n >= MAX_CONSECUTIVE_ERRORS

IdleWait ==
    [pc |-> "idle", timeout_ms |-> 0, start_time |-> 0,
     consecutive_errors |-> 0, last_file_size |-> 0,
     \* the reader: lines consumed, and FramedRead's has_errored
     read |-> 0, has_errored |-> FALSE,
     result |-> Running,
     \* history: read errors in a row when the call ended, lines since
     errors_in_a_row |-> 0]

\* the file at the path: whether it exists, and its lines
NoLog == [exists |-> FALSE, lines |-> <<>>]

\* wait_assistant_jsonl(timeout_ms, 0) is entered (session.rs:356-366)
WaitCall(t) ==
    /\ tl.pc = "idle"
    /\ tl' = [tl EXCEPT !.pc = "exists", !.timeout_ms = t, !.start_time = now]
    /\ UNCHANGED <<bus, cl, dg, now, nz, fs, br>>

\* while !path.exists(): time out, or sleep 100 ms (session.rs:377-382)
WaitFileMissing ==
    /\ tl.pc = "exists"
    /\ ~fs.exists
    /\ IF wait_expired(now - tl.start_time, tl.timeout_ms)
       THEN /\ tl' = [tl EXCEPT !.pc = "done", !.result = AppearTimeoutError]
            /\ now' = now
       ELSE /\ now + error_sleep_ms <= MaxWaitTime
            /\ now' = now + error_sleep_ms
            /\ tl' = tl
    /\ UNCHANGED <<bus, cl, dg, nz, fs, br>>

\* File::open and seek: the loop starts, or the call fails (session.rs:385-413)
WaitOpen(ok) ==
    /\ tl.pc = "exists"
    /\ fs.exists
    /\ tl' = IF ok THEN [tl EXCEPT !.pc = "loop"]
             ELSE [tl EXCEPT !.pc = "done", !.result = HardError("open")]
    /\ UNCHANGED <<bus, cl, dg, now, nz, fs, br>>

\* if elapsed > timeout_duration { break } (session.rs:418-426, 588-591)
WaitTimeout ==
    /\ tl.pc = "loop"
    /\ wait_expired(now - tl.start_time, tl.timeout_ms)
    /\ tl' = [tl EXCEPT !.pc = "done", !.result = TailTimeoutError(tl.timeout_ms)]
    /\ UNCHANGED <<bus, cl, dg, now, nz, fs, br>>

\* Err(_): reader.next() did not answer in the time left (session.rs:428-431, 581-584)
WaitNextTimesOut ==
    /\ tl.pc = "loop"
    /\ ~wait_expired(now - tl.start_time, tl.timeout_ms)
    /\ now' = tl.start_time + tl.timeout_ms
    /\ tl' = [tl EXCEPT !.pc = "done", !.result = TailTimeoutError(tl.timeout_ms)]
    /\ UNCHANGED <<bus, cl, dg, nz, fs, br>>

\* Ok(Some(Ok(line))): the count of errors is reset; an assistant record
\* ends the call (session.rs:432-511)
WaitLine ==
    LET line == fs.lines[tl.read + 1] IN
    /\ tl.pc = "loop"
    /\ ~wait_expired(now - tl.start_time, tl.timeout_ms)
    /\ ~tl.has_errored
    /\ tl.read < Len(fs.lines)
    /\ tl' = IF line = "assistant"
             THEN [tl EXCEPT !.read = @ + 1, !.consecutive_errors = 0, !.errors_in_a_row = 0,
                             !.pc = "done", !.result = OkReply(<<"x">>, tl.read + 1)]
             ELSE [tl EXCEPT !.read = @ + 1, !.consecutive_errors = 0, !.errors_in_a_row = 0]
    /\ UNCHANGED <<bus, cl, dg, now, nz, fs, br>>

\* Ok(Some(Err(e))): the error is counted; the call fails at the threshold
\* or sleeps 100 ms. errored: whether the reader answers None next, as
\* FramedRead does after an error in some versions (session.rs:513-528)
WaitReadError(errored) ==
    LET n == tl.consecutive_errors + 1 IN
    /\ tl.pc = "loop"
    /\ ~wait_expired(now - tl.start_time, tl.timeout_ms)
    /\ ~tl.has_errored
    /\ IF too_many_errors(n)
       THEN /\ tl' = [tl EXCEPT !.consecutive_errors = n, !.errors_in_a_row = @ + 1,
                                !.pc = "done", !.result = HardError("read")]
            /\ now' = now
       ELSE /\ now + error_sleep_ms <= MaxWaitTime
            /\ tl' = [tl EXCEPT !.consecutive_errors = n, !.errors_in_a_row = @ + 1,
                                !.has_errored = errored]
            /\ now' = now + error_sleep_ms
    /\ UNCHANGED <<bus, cl, dg, nz, fs, br>>

\* Ok(None): metadata fails (stat = "fail"), or the file has not grown, or it
\* is reopened, or the reopening fails (session.rs:530-579)
WaitNone(stat_ok, reopen_ok) ==
    LET current_size == Len(fs.lines)
        slept(ms) == /\ now + ms <= MaxWaitTime
                     /\ now' = now + ms
    IN
    /\ tl.pc = "loop"
    /\ ~wait_expired(now - tl.start_time, tl.timeout_ms)
    /\ tl.has_errored \/ tl.read = Len(fs.lines)
    /\ IF ~stat_ok
       THEN slept(error_sleep_ms) /\ tl' = [tl EXCEPT !.has_errored = FALSE]
       ELSE IF current_size <= tl.last_file_size
       THEN slept(sleep_ms) /\ tl' = [tl EXCEPT !.has_errored = FALSE]
       ELSE IF ~reopen_ok
       THEN slept(error_sleep_ms) /\ tl' = [tl EXCEPT !.has_errored = FALSE]
       ELSE /\ now' = now
            /\ tl' = [tl EXCEPT !.has_errored = FALSE, !.last_file_size = current_size]
    /\ UNCHANGED <<bus, cl, dg, nz, fs, br>>

\* the subprocess creates its log file
LogAppears ==
    /\ ~fs.exists
    /\ fs' = [fs EXCEPT !.exists = TRUE]
    /\ UNCHANGED <<bus, cl, dg, now, nz, tl, br>>

\* the subprocess appends a line
LogAppend(kind) ==
    /\ fs.exists
    /\ Len(fs.lines) < MaxLines
    /\ fs' = [fs EXCEPT !.lines = Append(@, kind)]
    /\ UNCHANGED <<bus, cl, dg, now, nz, tl, br>>

InitWait ==
    /\ bus = <<>>
    /\ cl = <<>>
    /\ dg = <<>>
    /\ now = 0
    /\ nz = <<>>
    /\ fs = NoLog
    /\ tl = IdleWait
    /\ br = <<>>

\* the steps of the call itself
WaitStep ==
    \/ WaitFileMissing
    \/ \E ok \in BOOLEAN : WaitOpen(ok)
    \/ WaitTimeout
    \/ WaitNextTimesOut
    \/ WaitLine
    \/ \E errored \in BOOLEAN : WaitReadError(errored)
    \/ \E stat_ok \in BOOLEAN, reopen_ok \in BOOLEAN : WaitNone(stat_ok, reopen_ok)

NextWait ==
    \/ \E t \in WaitTimeouts : WaitCall(t)
    \/ WaitFileMissing
    \/ \E ok \in BOOLEAN : WaitOpen(ok)
    \/ WaitTimeout
    \/ WaitNextTimesOut
    \/ WaitLine
    \/ \E errored \in BOOLEAN : WaitReadError(errored)
    \/ \E stat_ok \in BOOLEAN, reopen_ok \in BOOLEAN : WaitNone(stat_ok, reopen_ok)
    \/ LogAppears
    \/ \E kind \in LineKinds : LogAppend(kind)

SpecWait == InitWait /\ [][NextWait]_vars

\* the task that runs the call is scheduled as long as it has a step to take
SpecWaitFair == SpecWait /\ WF_vars(WaitStep)

-----------------------------------------------------------------------------
(* C23 *)

\* C23: a call of wait_assistant_jsonl that has started eventually returns -
\* an assistant text with its offset, a timeout error or a hard error -
\* whatever the file does: missing, never growing, growing with lines that
\* are not assistant records, metadata, reopen or read failures.
C23_WaitTerminates ==
    (tl.pc \in {"exists", "loop"})
        ~> (tl.pc = "done" /\ tl.result.kind \in {"ok", "timeout", "hard"})

\* the call ended with the timeout error after read errors and sleeps
C23_Witness ==
    /\ tl.pc = "done"
    /\ tl.result = TailTimeoutError(400)
    /\ tl.consecutive_errors > 0
    /\ now > tl.start_time + tl.timeout_ms
-----------------------------------------------------------------------------
(* C24 *)

\* C24: while handle_envelope waits for the assistant reply the lock of the
\* session map is not held.
C24_NoMapLockWhileWaiting ==
    br.pc = "wait" => ~br.sessions_locked
-----------------------------------------------------------------------------
(* C25 *)

\* C25: input is written to a session only when the session is Ready: its
\* readiness notification has fired, and no other turn of the session is
\* being processed.
C25_InputOnlyWhenReady ==
    /\ br.pc = "wait" => br.sid \in br.ready
    /\ \A i, j \in DOMAIN br.hist :
           (i < j /\ br.hist[i].ev = "write" /\ br.hist[j].ev = "write")
               => \E m \in i..j : br.hist[m] = Ev("return", br.hist[i].k)

----------------------------------------------------------------------------
(* C26                                                                      *)

\* C26: no failure makes Bridge::run return. The step in which a session
\* start fails (spawn), a write to the subprocess fails (write), the wait for
\* the reply times out (timeout), the publish fails (publish) or the inbox
\* read fails (read) leaves the loop about to read the inbox again, at once
\* or after its sleep, and the step of a failed session start leaves the
\* session map as it was.
C26_FailuresKeepLoopRunning ==
    [][(br'.failure # "" /\ br.failure = "")
           => /\ br'.pc \in {"read", "sleep"}
              /\ br'.failure = "spawn" => br'.sessions = br.sessions]_vars

\* a session start has failed for the first envelope of its address, and
\* the loop is about to read the inbox again with no session in the map
C26_Witness ==
    /\ br.failure = "spawn"
    /\ br.pc = "read"
    /\ br.sessions = EmptyMap
    /\ br.hist # <<>>

----------------------------------------------------------------------------
(* C27                                                                      *)

\* the assistant records written whole after the start offset of the call
AssistantAfter(t) == {i \in DOMAIN fs.log : fs.log[i].pos > t.start_offset}

\* the text of the record that begins at byte pos of the file
TextAt(pos) == SubSeq(fs.file, pos + 2, pos + 3)

\* C27: first match wins. A call that returns a text returns the text of the
\* earliest whole assistant record after its start offset, and a call that
\* began when such a record was already in the file returns a text:
\* diagnostics, other records, invalid lines and fragments that are never
\* completed before the record do not make the call lose it.
C27_FirstMatchWins ==
    tl.pc = "done" =>
        LET after == AssistantAfter(tl)
            first == CHOOSE i \in after : \A j \in after : fs.log[i].pos <= fs.log[j].pos
        IN
        /\ tl.result.kind = "ok"
               => after # {} /\ tl.result.text = TextAt(fs.log[first].pos)
        /\ (\E i \in after : fs.log[i].at <= tl.start_time)
               => tl.result.kind = "ok"

----------------------------------------------------------------------------
(* C28                                                                      *)

\* C28: the read-error threshold. The count is the number of read errors
\* since the last line read; the call goes on retrying while the count is
\* within MAX_CONSECUTIVE_ERRORS, and it ends with the hard read error only
\* when the count has exceeded MAX_CONSECUTIVE_ERRORS.
C28_AbortOnlyPastThreshold ==
    /\ tl.consecutive_errors = tl.errors_in_a_row
    /\ (tl.pc = "done" /\ tl.result = HardError("read"))
           => tl.errors_in_a_row > MAX_CONSECUTIVE_ERRORS

----------------------------------------------------------------------------
(* C29                                                                      *)

\* elapsed times and timeouts around the slice and around each other
EdgeMs == {0, 1, 399, 400, 799, 800, 801, 1199, 1200}

\* C29: a group read that a call has issued blocks for at least 1 ms, at
\* most slice_ms and at most what was left of timeout_ms when the loop
\* measured the elapsed time; a call with timeout_ms = 0 issues no group
\* read; and so for every elapsed time and timeout around the edges with
\* which the loop gets past its timeout test.
C29_SliceBounds ==
    /\ \A d \in Delegators :
           /\ dg[d].pc = "read"
                  => /\ dg[d].block >= 1
                     /\ dg[d].block <= slice_ms
                     /\ dg[d].deadline <= dg[d].start + dg[d].timeout_ms
           /\ (dg[d].pc # "idle" /\ dg[d].timeout_ms = 0)
                  => dg[d].pc \notin {"read", "ack"} /\ dg[d].claimed = {}
    /\ \A elapsed \in EdgeMs, timeout_ms \in EdgeMs :
           ~timed_out(elapsed, timeout_ms)
               => /\ block_ms(elapsed, timeout_ms) >= 1
                  /\ block_ms(elapsed, timeout_ms) <= slice_ms
                  /\ block_ms(elapsed, timeout_ms) <= timeout_ms - elapsed

\* a call with timeout_ms = 1200 has spent 800 ms and is blocked in its
\* third read for the 400 ms that are left
C29_Witness ==
    /\ dg["d1"].pc = "read"
    /\ dg["d1"].timeout_ms = 1200
    /\ now - dg["d1"].start = 800
    /\ dg["d1"].block = 400

----------------------------------------------------------------------------
(* C30                                                                      *)

\* C30: every request envelope of a call by name is stored in the inbox
\* that the registry resolves the name to, its reply_to is the caller's own
\* inbox, its correlation_id is the id the wait loop of the call matches
\* on, and its target is that resolved inbox.
C30_RequestAddressing ==
    \A d \in Callers, s \in DOMAIN bus.streams :
        \A i \in DOMAIN bus.streams[s] :
            LET env == EnvelopeAt(s, i)
                info == Unwrap(registry_get(dg[d].target))
            IN
            (env["agent_name"] = Some("ag1goose") /\ env["envelope_id"] = Some(CidOf(d)))
                => /\ s = info.inbox
                   /\ env["reply_to"] = Some(in_stream)
                   /\ env["correlation_id"] = Some(CidOf(d))
                   /\ reply_matches(env, CidOf(d))
                   /\ env["target"] = Some(info.inbox)

-----------------------------------------------------------------------------
(* C31                                                                      *)

\* C31: whatever content the caller passes, an object that already has a
\* text key with a number, null, array or object as its value included, the
\* text of the content that create_envelope and delegate_with_opts put in
\* the envelope is a string.
C31_TextIsString ==
    nz.stage \in {"created", "delegated"}
        => /\ nz.value.t = "obj"
           /\ "text" \in DOMAIN nz.value.f
           /\ TextOf(nz.value).t = "str"

-----------------------------------------------------------------------------
(* C32                                                                      *)

\* C32: over the turns of a session its last_offset never decreases; the
\* step that ends a turn with an assistant record makes it larger, and the
\* step that ends a turn whose wait failed or timed out, or whose input
\* could not be written, leaves it as it was.
C32_StoredOffsetMonotone ==
    [][/\ tl'.last_offset >= tl.last_offset
       /\ (tl'.calls > tl.calls /\ tl'.pc = "idle")
              => tl'.last_offset = tl.last_offset
       /\ (tl.pc = "done" /\ tl'.pc = "idle")
              => IF tl.result.kind = "ok"
                 THEN tl'.last_offset > tl.last_offset
                 ELSE tl'.last_offset = tl.last_offset]_vars

\* the first turn returned a record and stored its offset; the second timed
\* out and the offset is still the one the first stored
C32_Witness ==
    /\ tl.pc = "idle"
    /\ tl.calls = 2
    /\ tl.result.kind = "timeout"
    /\ tl.prev # None
    /\ tl.last_offset = Unwrap(tl.prev).offset
    /\ tl.last_offset > 0

-----------------------------------------------------------------------------
(* SpecListener: run_bus_listener of the web command                        *)
(* (goose-cli/src/commands/web.rs:751-928) on the inbox stream, with a      *)
(* transport whose connection and reads may fail.                           *)

\* bound: the connection and read failures of one run
MaxFailures == 6

\* backoff = (backoff * 2).min(30) (web.rs:769, 926)
backoff_cap == 30

next_backoff(backoff) == Min(backoff * 2, backoff_cap)

IdleListener ==
    [pc |-> "connect", backoff |-> 1, last_id |-> "", cursor |-> 0,
     \* the seconds slept last, the outcome of the last read (some, none,
     \* err), the failures so far and the envelopes the clients sent
     slept |-> 0, last_read |-> "", failures |-> 0, sent |-> 0,
     \* how often the user envelope at each inbox position was processed
     \* and answered (counted up to two)
     answered |-> [k \in 1..(MaxTurns + 1) |-> 0]]

\* a client appends its next envelope to the listener's inbox
ListenerClientSend(role) ==
    /\ br.sent < MaxTurns
    /\ bus' = send(bus, inbox, ClientEnvelope(role, br.sent + 1)).bus
    /\ br' = [br EXCEPT !.sent = @ + 1]
    /\ UNCHANGED <<cl, dg, now, nz, fs, tl>>

\* Bus::new at the head of the outer loop (web.rs:757-779): on Ok the
\* inner loop starts with last_id = "0-0"; on Err the listener sleeps
\* backoff seconds and doubles it
ListenerConnect(ok) ==
    /\ br.pc = "connect"
    /\ IF ok
       THEN br' = [br EXCEPT !.pc = "read", !.last_id = "0-0", !.last_read = ""]
       ELSE /\ br.failures < MaxFailures
            /\ br' = [br EXCEPT !.pc = "connect", !.slept = br.backoff,
                                !.last_read = "connect",
                                !.backoff = next_backoff(@), !.failures = @ + 1]
    /\ UNCHANGED <<bus, cl, dg, now, nz, fs, tl>>

\* bus.recv_block(&cfg.inbox, &last_id, cfg.timeout_ms) is issued (web.rs:791)
ListenerRecvCall ==
    /\ br.pc = "read"
    /\ br' = [br EXCEPT !.pc = "blocked", !.cursor = XReadCursor(bus, inbox, br.last_id)]
    /\ UNCHANGED <<bus, cl, dg, now, nz, fs, tl>>

\* Ok(Some(env)): backoff = 1, last_id moves, and a user envelope is
\* processed and answered on its reply address (web.rs:798-916).
\* process_ok: whether process_bus_message succeeds; send_ok: whether
\* bus.send does
ListenerRecvReturn(process_ok, send_ok) ==
    LET res == recv_block_result(XRead(bus, inbox, br.cursor))
        env == res.env
        k == br.cursor + 1
        sid == IF IsSome(env["session_code"]) THEN Unwrap(env["session_code"]) ELSE "default"
        reply_to == IF IsSome(env["reply_to"]) THEN Unwrap(env["reply_to"]) ELSE inbox
        reply_env == [BlankEnvelope("assistant", JObj([text |-> JStr("answer")])) EXCEPT
                         !["session_code"] = Some(sid),
                         !["agent_name"] = Some("goose"),
                         !["reply_to"] = Some(reply_to),
                         !["envelope_type"] = Some("message_reply"),
                         !["timestamp"] = Some(NatToString(now)),
                         !["envelope_id"] = env["correlation_id"],
                         !["correlation_id"] = env["correlation_id"]]
        read == [br EXCEPT !.pc = "read", !.backoff = 1, !.last_read = "some",
                           !.last_id = IF IsSome(env["envelope_id"])
                                       THEN Unwrap(env["envelope_id"]) ELSE @]
    IN
    /\ br.pc = "blocked"
    /\ res.kind = "some"
    /\ IF env["role"] # "user" \/ ~process_ok
       THEN /\ br' = read
            /\ bus' = bus
       ELSE /\ br' = [read EXCEPT !.answered[k] = Min(@ + 1, 2)]
            /\ bus' = IF send_ok /\ br.answered[k] < 2
                      THEN send(bus, reply_to, reply_env).bus ELSE bus
    /\ UNCHANGED <<cl, dg, now, nz, fs, tl>>

\* Ok(None) => {} (web.rs:918): the inner loop goes round
ListenerRecvNone ==
    /\ br.pc = "blocked"
    /\ XRead(bus, inbox, br.cursor) = <<>>
    /\ br' = [br EXCEPT !.pc = "read", !.last_read = "none"]
    /\ UNCHANGED <<bus, cl, dg, now, nz, fs, tl>>

\* Err(e): the inner loop is left; the listener sleeps backoff seconds,
\* doubles it and connects again (web.rs:919-926)
ListenerRecvError ==
    /\ br.pc = "blocked"
    /\ br.failures < MaxFailures
    /\ br' = [br EXCEPT !.pc = "connect", !.slept = br.backoff, !.last_read = "err",
                        !.backoff = next_backoff(@), !.failures = @ + 1]
    /\ UNCHANGED <<bus, cl, dg, now, nz, fs, tl>>

InitListener ==
    /\ bus = EmptyBus
    /\ cl = <<>>
    /\ dg = <<>>
    /\ now = 0
    /\ nz = <<>>
    /\ fs = <<>>
    /\ tl = <<>>
    /\ br = IdleListener

NextListener ==
    \/ \E role \in {"user", "system"} : ListenerClientSend(role)
    \/ \E ok \in BOOLEAN : ListenerConnect(ok)
    \/ ListenerRecvCall
    \/ \E process_ok \in BOOLEAN, send_ok \in BOOLEAN : ListenerRecvReturn(process_ok, send_ok)
    \/ ListenerRecvNone
    \/ ListenerRecvError

SpecListener == InitListener /\ [][NextListener]_vars

-----------------------------------------------------------------------------
(* C33                                                                      *)

\* C33: the backoff of the listener is one of 1, 2, 4, 8, 16, 30 seconds;
\* a failed connection or read has slept the backoff and left it doubled,
\* with a cap of 30; and after a read that succeeded, with an entry or with
\* none, it is 1.
C33_BackoffDoublesAndResets ==
    /\ br.backoff \in {1, 2, 4, 8, 16, 30}
    /\ br.last_read \in {"connect", "err"} => br.backoff = Min(2 * br.slept, 30)
    /\ br.last_read \in {"some", "none"} => br.backoff = 1

-----------------------------------------------------------------------------
(* SpecLocks: the two mutexes of Bridge, self.sessions and                  *)
(* self.reply_to_session, over the steps of handle_envelope                 *)
(* (ag1goose-bridge/src/bridge.rs:125-269). Every guard is a local of the   *)
(* function or block that takes it and is dropped where that ends.          *)

SessionsLock == "sessions"
MappingLock == "reply_to_session"

\* the user envelopes that reach the locks
LockKinds == {"plain", "same_code", "new_code", "bare"}

\* a map_reply_to_session whose guard would outlive the call
map_guard_kept(held) == held

\* the guard `map` of map_reply_to_session is dropped when the function
\* returns (bridge.rs:258-262)
map_guard_dropped(held) == held \ {MappingLock}

IdleLocks ==
    [pc |-> "idle", held |-> {}, reply_to_session |-> <<>>, sessions |-> <<>>,
     env |-> None, reply_to |-> "", sid |-> "", turns |-> 0,
     \* the sessions whose subprocess has exited
     exited |-> {}]

\* handle_envelope is called with a user envelope (bridge.rs:125-135)
LocksEnvelope(kind) ==
    /\ br.pc = "idle"
    /\ br.turns < MaxInbound
    /\ br' = [br EXCEPT !.pc = "lookup", !.turns = @ + 1,
                        !.env = Some(Inbound(kind, br.turns + 1)),
                        !.reply_to = get_reply_to(Inbound(kind, br.turns + 1))]
    /\ UNCHANGED <<bus, cl, dg, now, nz, fs, tl>>

\* a mutex is taken: self.reply_to_session.lock().await in the two helpers
\* (bridge.rs:253, 259), self.sessions.lock().await in get_or_start_session
\* and in the block of the turn (bridge.rs:45, 174)
LocksAcquire ==
    LET lock == IF br.pc \in {"lookup", "map"} THEN MappingLock ELSE SessionsLock IN
    /\ br.pc \in {"lookup", "map", "start", "turn"}
    /\ lock \notin br.held
    /\ br' = [br EXCEPT !.pc = @ \o "_held", !.held = @ \cup {lock}]
    /\ UNCHANGED <<bus, cl, dg, now, nz, fs, tl>>

\* get_session_for_reply_to returns (bridge.rs:138-140, 252-255)
LocksLookupReturn ==
    LET known == get_session_for_reply_to(br.reply_to_session, br.reply_to) IN
    /\ br.pc = "lookup_held"
    /\ br' = [br EXCEPT !.held = @ \ {MappingLock},
                        !.pc = IF IsSome(known) THEN "start" ELSE "map",
                        !.sid = IF IsSome(known) THEN Unwrap(known) ELSE @]
    /\ UNCHANGED <<bus, cl, dg, now, nz, fs, tl>>

\* the new session id is bound to the reply address (bridge.rs:142-151, 258-262)
LocksMapReturn ==
    LET s == session_id_for(br.reply_to_session, Unwrap(br.env), br.reply_to, br.turns) IN
    /\ br.pc = "map_held"
    /\ br' = [br EXCEPT !.held = map_guard_dropped(@),
                        !.pc = "start", !.sid = s.sid, !.reply_to_session = s.map]
    /\ UNCHANGED <<bus, cl, dg, now, nz, fs, tl>>

\* get_or_start_session returns (bridge.rs:41-64, 155). start_ok: whether
\* GooseSession::start succeeds if it is called
LocksStartReturn(start_ok) ==
    LET known == br.sid \in DOMAIN br.sessions IN
    /\ br.pc = "start_held"
    /\ br' = IF known \/ start_ok
             THEN [br EXCEPT !.held = @ \ {SessionsLock}, !.pc = "turn",
                             !.sessions = IF known THEN @ ELSE insert_session(@, br.sid)]
             ELSE [br EXCEPT !.held = @ \ {SessionsLock}, !.pc = "idle", !.env = None]
    /\ UNCHANGED <<bus, cl, dg, now, nz, fs, tl>>

\* the block of the turn ends, after the wait or where send_user fails
\* (bridge.rs:173-206); an exited subprocess takes no input
LocksTurnReturn(write_ok) ==
    /\ br.pc = "turn_held"
    /\ br' = [br EXCEPT !.held = @ \ {SessionsLock}, !.pc = "idle", !.env = None,
                        !.sessions = IF write_ok /\ br.sid \notin br.exited
                                     THEN [@ EXCEPT ![br.sid].inputs =
                                              Append(@, Unwrap(message_text(Unwrap(br.env))))]
                                     ELSE @]
    /\ UNCHANGED <<bus, cl, dg, now, nz, fs, tl>>

\* the subprocess of a session exits
LocksSessionExits(sid) ==
    /\ sid \in DOMAIN br.sessions
    /\ sid \notin br.exited
    /\ br' = [br EXCEPT !.exited = @ \cup {sid}]
    /\ UNCHANGED <<bus, cl, dg, now, nz, fs, tl>>

InitLocks ==
    /\ bus = EmptyBus
    /\ cl = <<>>
    /\ dg = <<>>
    /\ now = 0
    /\ nz = <<>>
    /\ fs = <<>>
    /\ tl = <<>>
    /\ br = IdleLocks

NextLocks ==
    \/ \E kind \in LockKinds : LocksEnvelope(kind)
    \/ LocksAcquire
    \/ LocksLookupReturn
    \/ LocksMapReturn
    \/ \E start_ok \in BOOLEAN : LocksStartReturn(start_ok)
    \/ \E write_ok \in BOOLEAN : LocksTurnReturn(write_ok)
    \/ \E sid \in SessionIds : LocksSessionExits(sid)

SpecLocks == InitLocks /\ [][NextLocks]_vars

-----------------------------------------------------------------------------
(* C34                                                                      *)

\* C34: the bridge never holds the lock of the session map and the lock of
\* the reply-address-to-session mapping at the same time.
C34_LocksNeverNested == ~({SessionsLock, MappingLock} \subseteq br.held)

\* the second turn of a reply address: its session was found under the
\* mapping lock, and the bridge now holds the lock of the session map alone
C34_Witness ==
    /\ br.pc = "turn_held"
    /\ br.turns = 2
    /\ br.held = {SessionsLock}
    /\ br.reply_to \in DOMAIN br.reply_to_session
    /\ br.sessions[br.sid].inputs # <<>>

-----------------------------------------------------------------------------
(* SpecCursor: the reads of Bridge::run on its inbox                        *)
(* (ag1goose-bridge/src/bridge.rs:70-99, bus/src/lib.rs:141-166), without   *)
(* what handle_envelope does with an envelope (SpecLoop).                   *)

IdleCursor ==
    [pc |-> "read", last_id |-> "$", cursor |-> 0, sent |-> 0,
     \* the inbox positions of the envelopes received, in order, and the
     \* length of the inbox when the first read was issued (-1 before it)
     received |-> <<>>, first |-> -1]

\* a client appends its next envelope to the bridge's inbox
CursorClientSend(role) ==
    /\ br.sent < MaxInbound
    /\ bus' = send(bus, inbox, ClientEnvelope(role, br.sent + 1)).bus
    /\ br' = [br EXCEPT !.sent = @ + 1]
    /\ UNCHANGED <<cl, dg, now, nz, fs, tl>>

\* self.bus.recv_block(&self.cfg.inbox, &last_id, 2000) is issued (bridge.rs:75)
CursorRecvCall ==
    /\ br.pc = "read"
    /\ br' = [br EXCEPT !.pc = "blocked",
                        !.cursor = XReadCursor(bus, inbox, br.last_id),
                        !.first = IF @ = -1 THEN Len(bus.streams[inbox]) ELSE @]
    /\ UNCHANGED <<bus, cl, dg, now, nz, fs, tl>>

\* Ok(Some(env)): last_id moves to the id of the envelope, which is handled
\* before the next read (bridge.rs:76-96)
CursorRecvReturn ==
    LET res == recv_block_result(XRead(bus, inbox, br.cursor)) IN
    /\ br.pc = "blocked"
    /\ res.kind = "some"
    /\ br' = [br EXCEPT !.pc = "read",
                        !.last_id = IF IsSome(res.env["envelope_id"])
                                    THEN Unwrap(res.env["envelope_id"]) ELSE @,
                        !.received = Append(@, br.cursor + 1)]
    /\ UNCHANGED <<bus, cl, dg, now, nz, fs, tl>>

\* Ok(None) after 2000 ms: the loop goes round (bridge.rs:97-99)
CursorRecvNone ==
    /\ br.pc = "blocked"
    /\ XRead(bus, inbox, br.cursor) = <<>>
    /\ br' = [br EXCEPT !.pc = "read"]
    /\ UNCHANGED <<bus, cl, dg, now, nz, fs, tl>>

InitCursor ==
    /\ bus = EmptyBus
    /\ cl = <<>>
    /\ dg = <<>>
    /\ now = 0
    /\ nz = <<>>
    /\ fs = <<>>
    /\ tl = <<>>
    /\ br = IdleCursor

NextCursor ==
    \/ \E role \in {"user", "system"} : CursorClientSend(role)
    \/ CursorRecvCall
    \/ CursorRecvReturn
    \/ CursorRecvNone

SpecCursor == InitCursor /\ [][NextCursor]_vars

-----------------------------------------------------------------------------
(* C35                                                                      *)

\* C35: the envelopes the loop has received are the inbox entries appended
\* after its first read was issued, from the first of them on, each once and
\* in the order they were appended: none is passed over, none comes twice.
C35_NoMissedOrRepeated ==
    \A i \in DOMAIN br.received : br.received[i] = br.first + i

-----------------------------------------------------------------------------
(* SpecShared: SpecCursor with a delegator whose reply inbox is the         *)
(* bridge's inbox: the wait loop of delegate_with_opts                      *)
(* (ag1_meta/src/lib.rs:131-135, 205-229) reads the stream through the      *)
(* consumer group and acknowledges what it claims.                          *)

\* the correlation id the delegator waits for: that of the second envelope
SharedCid == TurnCid(2)

IdleShared ==
    [pc |-> "group", reply |-> None,
     \* the inbox positions the delegator has claimed and acknowledged
     claimed |-> {}, acked |-> {}]

\* bus.create_consumer_group(in_stream, group) (lib.rs:132-135)
SharedEnsureGroup ==
    /\ dg.pc = "group"
    /\ bus' = XGroupCreate(bus, inbox, Group).bus
    /\ dg' = [dg EXCEPT !.pc = "read"]
    /\ UNCHANGED <<cl, now, nz, fs, tl, br>>

\* bus.recv_block_group(in_stream, group, &consumer_id, block) claims the
\* next entry new to the group (lib.rs:215-218)
SharedGroupRead ==
    LET r == XReadGroup(bus, inbox, Group, ConsumerOf("d1"))
        res == recv_block_group_result(r.reply, Group, ConsumerOf("d1"))
    IN
    /\ dg.pc = "read"
    /\ r.reply # <<>>
    /\ bus' = r.bus
    /\ dg' = [dg EXCEPT !.pc = IF res.kind = "some" THEN "ack" ELSE "done",
                        !.reply = IF res.kind = "some" THEN Some(res.env) ELSE None,
                        !.claimed = @ \cup {r.reply[1].id}]
    /\ UNCHANGED <<cl, now, nz, fs, tl, br>>

\* the claimed entry is acknowledged, and returned if it is the reply
\* (lib.rs:219-226)
SharedAck ==
    LET reply == Unwrap(dg.reply)
        id == Unwrap(reply["envelope_id"])
    IN
    /\ dg.pc = "ack"
    /\ bus' = XAck(bus, inbox, Group, id)
    /\ dg' = [dg EXCEPT !.reply = None,
                        !.acked = @ \cup {k \in dg.claimed : StreamId(k) = id},
                        !.pc = IF reply_matches(reply, SharedCid) THEN "done" ELSE "read"]
    /\ UNCHANGED <<cl, now, nz, fs, tl, br>>

InitShared ==
    /\ bus = EmptyBus
    /\ cl = <<>>
    /\ dg = IdleShared
    /\ now = 0
    /\ nz = <<>>
    /\ fs = <<>>
    /\ tl = <<>>
    /\ br = IdleCursor

NextShared ==
    \/ \E role \in {"user", "assistant"} : CursorClientSend(role)
    \/ CursorRecvCall
    \/ CursorRecvReturn
    \/ CursorRecvNone
    \/ SharedEnsureGroup
    \/ SharedGroupRead
    \/ SharedAck

SpecShared == InitShared /\ [][NextShared]_vars

-----------------------------------------------------------------------------
(* C37                                                                      *)

-----------------------------------------------------------------------------
(* C36                                                                      *)

\* C36: through the losses and re-establishments of the listener's
\* connection, no user envelope of the inbox is processed and answered a
\* second time.
C36_NoRehandlingAfterReconnect ==
    \A k \in DOMAIN br.answered : br.answered[k] <= 1

-----------------------------------------------------------------------------
(* C38                                                                      *)

-----------------------------------------------------------------------------
(* C39                                                                      *)

\* the number of requests of call d in the target's inbox
RequestCount(d) == Cardinality(RequestsOf(d))

\* the call has got past the resolution of its target
Resolved(d) ==
    /\ dg[d].pc # "idle"
    /\ dg[d].result # unknown_agent_error(dg[d].target)

\* C39 as stated: every call that has got past the resolution of its target
\* and has reached its wait loop or ended has exactly one request in the
\* target's inbox, and no call ever has more than one.
C39_ExactlyOneRequest ==
    \A d \in Callers :
        /\ RequestCount(d) <= 1
        /\ (Resolved(d) /\ dg[d].pc \in {"loop", "read", "ack", "done"})
               => RequestCount(d) = 1

\* C39, amended: no call ever has more than one request in the target's
\* inbox; it has none before its send and none when it ended on an unknown
\* target or on the failure of its send; it has exactly one from its
\* successful send on, through every round of the wait loop, and still has
\* it when it has ended with a reply, with a timeout or with the failure of
\* a group read.
C39_OneRequestOnceSent ==
    \A d \in Callers :
        /\ RequestCount(d) <= 1
        /\ dg[d].pc \in {"idle", "group", "send"} => RequestCount(d) = 0
        /\ dg[d].pc \in {"loop", "read", "ack"} => RequestCount(d) = 1
        /\ (dg[d].pc = "done" /\ (~Resolved(d) \/ dg[d].failed = "send"))
               => RequestCount(d) = 0
        /\ (dg[d].pc = "done"
               /\ (dg[d].result.kind \in {"some", "timeout"} \/ dg[d].failed = "read"))
               => RequestCount(d) = 1

\* a call has gone round its wait loop more than once and ended with the
\* timeout, and its one request is in the target's inbox
C39_Witness ==
    /\ dg["d1"].pc = "done"
    /\ dg["d1"].result.kind = "timeout"
    /\ dg["d1"].timeout_ms > slice_ms
    /\ RequestCount("d1") = 1

=============================================================================
